---- MODULE Spec2Model ----
(***************************************************************************)
(* Symptom ledger (SymptomState) and per-turn conversation graph of the    *)
(* symptom documentation assistant.                                        *)
(*                                                                         *)
(* Strings that the code inspects character by character (symptom names)   *)
(* are sequences of one-character strings.  An Optional[T] value is a      *)
(* sequence of length 0 (None) or 1 (the value).                           *)
(***************************************************************************)
EXTENDS Integers, Sequences, FiniteSets, TLC

VARIABLES
    symptom_state,       \* state["symptom_state"]: the ledger
    user_input,          \* state["user_input"]
    current_action,      \* state["current_action"]
    extracted_symptoms,  \* state["extracted_symptoms"]: keys in insertion order
    missing_fields,      \* state["missing_fields"]: the fields last asked about
    follow_up_count,     \* state["follow_up_count"]
    node,                \* the graph node about to run, "idle" between turns
    steps,               \* turns started, and direct calls where counted
    rotations,           \* rotate_current_symptom calls made by this turn
    call,                \* the last direct call and what it returned
    ai_response,         \* state["ai_response"]
    chat_history,        \* state["chat_history"]
    held,                \* the state dict the caller passed to the running turn
    messages,            \* rows of thread_messages of the thread, by timestamp
    symptom_data,        \* the symptom_data of the thread's thread_symptoms rows
    filename,            \* state["filename"]: the staged medication label
    store,               \* the tables of the database, the clock, open calls
    other                \* a turn a second caller runs on the thread

vars == <<symptom_state, user_input, current_action, extracted_symptoms,
          missing_fields, follow_up_count, node, steps, rotations, call,
          ai_response, chat_history, held, messages, symptom_data, filename,
          store, other>>

-----------------------------------------------------------------------------
(* Optional values *)

None == <<>>

Some(v) == <<v>>

-----------------------------------------------------------------------------
(* str.lower(), str.strip() and the `in` operator on strings *)

UpperCase == <<"A","B","C","D","E","F","G","H","I","J","K","L","M",
               "N","O","P","Q","R","S","T","U","V","W","X","Y","Z">>

LowerCase == <<"a","b","c","d","e","f","g","h","i","j","k","l","m",
               "n","o","p","q","r","s","t","u","v","w","x","y","z">>

Whitespace == {" ", "\t", "\n"}

LowerTable ==
    [c \in {UpperCase[i] : i \in 1..Len(UpperCase)} |->
        LowerCase[CHOOSE i \in 1..Len(UpperCase) : UpperCase[i] = c]]

LowerChar(c) == IF c \in DOMAIN LowerTable THEN LowerTable[c] ELSE c

Lower(s) == [i \in 1..Len(s) |-> LowerChar(s[i])]

RECURSIVE LStrip(_)
LStrip(s) ==
    IF s # <<>> /\ Head(s) \in Whitespace THEN LStrip(Tail(s)) ELSE s

RECURSIVE RStrip(_)
RStrip(s) ==
    IF s # <<>> /\ s[Len(s)] \in Whitespace
    THEN RStrip(SubSeq(s, 1, Len(s) - 1))
    ELSE s

Strip(s) == RStrip(LStrip(s))

\* a in b  (a occurs in b as a contiguous run; the empty string occurs in all)
Contains(a, b) ==
    \E i \in 0..(Len(b) - Len(a)) : SubSeq(b, i + 1, i + Len(a)) = a

\* x in list
InList(x, list) == \E i \in 1..Len(list) : list[i] = x

\* list.index(x): the first position of x
IndexOf(x, list) == CHOOSE i \in 1..Len(list) :
    list[i] = x /\ \A j \in 1..(i - 1) : list[j] # x

-----------------------------------------------------------------------------
(* SymptomState.find_similar_symptom *)

modifiers == <<
    <<"m","i","l","d">>,
    <<"s","e","v","e","r","e">>,
    <<"s","l","i","g","h","t">>,
    <<"e","x","t","r","e","m","e">>,
    <<"m","o","d","e","r","a","t","e">>,
    <<"c","h","r","o","n","i","c">>,
    <<"a","c","u","t","e">> >>

\* f"{a} {b}"
Spaced(a, b) == a \o <<" ">> \o b

ModifierVariant(existing_lower, normalized_name) ==
    \E k \in 1..Len(modifiers) :
        \/ Spaced(modifiers[k], existing_lower) = normalized_name
        \/ Spaced(existing_lower, modifiers[k]) = normalized_name
        \/ Spaced(modifiers[k], normalized_name) = existing_lower
        \/ Spaced(normalized_name, modifiers[k]) = existing_lower

SubsetOrModifier(existing, normalized_name) ==
    LET existing_lower == Lower(existing)
    IN  \/ Contains(normalized_name, existing_lower)
        \/ Contains(existing_lower, normalized_name)
        \/ ModifierVariant(existing_lower, normalized_name)

\* find_similar_symptom with the .lower() of the new name forgotten
find_similar_symptom_no_lower(primary_symptoms, symptom_name) ==
    IF symptom_name = <<>>
    THEN <<FALSE, None>>
    ELSE
      LET normalized_name == Strip(symptom_name)
          loose  == {i \in 1..Len(primary_symptoms) :
                        SubsetOrModifier(primary_symptoms[i], normalized_name)}
      IN  IF loose # {}
          THEN <<TRUE, Some(primary_symptoms[CHOOSE i \in loose :
                                                \A j \in loose : i <= j])>>
          ELSE <<FALSE, None>>

\* find_similar_symptom returning the lowered name instead of the stored one
find_similar_symptom_lowered(primary_symptoms, symptom_name) ==
    IF symptom_name = <<>>
    THEN <<FALSE, None>>
    ELSE
      LET normalized_name == Strip(Lower(symptom_name))
          loose  == {i \in 1..Len(primary_symptoms) :
                        SubsetOrModifier(primary_symptoms[i], normalized_name)}
      IN  IF loose # {}
          THEN <<TRUE, Some(Lower(primary_symptoms[CHOOSE i \in loose :
                                                \A j \in loose : i <= j]))>>
          ELSE <<FALSE, None>>

\* find_similar_symptom with the direct match only
find_similar_symptom_exact(primary_symptoms, symptom_name) ==
    IF symptom_name = <<>>
    THEN <<FALSE, None>>
    ELSE
      LET normalized_name == Strip(Lower(symptom_name))
          direct == {i \in 1..Len(primary_symptoms) :
                        Lower(primary_symptoms[i]) = normalized_name}
      IN  IF direct # {}
          THEN <<TRUE, Some(primary_symptoms[CHOOSE i \in direct :
                                                \A j \in direct : i <= j])>>
          ELSE <<FALSE, None>>

find_similar_symptom(primary_symptoms, symptom_name) ==
    IF symptom_name = <<>>
    THEN <<FALSE, None>>
    ELSE
      LET normalized_name == Strip(Lower(symptom_name))
          direct == {i \in 1..Len(primary_symptoms) :
                        Lower(primary_symptoms[i]) = normalized_name}
          loose  == {i \in 1..Len(primary_symptoms) :
                        SubsetOrModifier(primary_symptoms[i], normalized_name)}
          first(S) == CHOOSE i \in S : \A j \in S : i <= j
      IN  IF direct # {} THEN <<TRUE, Some(primary_symptoms[first(direct)])>>
          ELSE IF loose # {} THEN <<TRUE, Some(primary_symptoms[first(loose)])>>
          ELSE <<FALSE, None>>

-----------------------------------------------------------------------------
(* SymptomDetail and SymptomState *)

\* The fields the code reads back; location, quality, timing, context and
\* onset are never read by missing_fields nor written by extract_details.
SymptomDetail(name) ==
    [name |-> Some(name), severity |-> None, duration |-> None,
     characteristics |-> None, aggravating_factors |-> None,
     relieving_factors |-> None, frequency |-> None, intensity |-> None,
     triggers |-> None, associated_symptoms |-> None]

Severity(level) == [level |-> level]

Duration(start_date, end_date, is_ongoing) ==
    [start_date |-> start_date, end_date |-> end_date, is_ongoing |-> is_ongoing]

EmptyDict == [x \in {} |-> None]

SymptomState0 ==
    [primary_symptoms |-> <<>>, symptom_details |-> EmptyDict,
     current_symptom |-> None]

\* `not x` for an Optional[List[str]] or an Optional name: None or empty
Falsy(opt) == opt = None \/ opt[1] = <<>>

\* add_symptom with the similarity check left out
add_symptom_no_dedup(S, symptom_name) ==
    IF symptom_name = <<>>
    THEN S
    ELSE
      LET S1 == [S EXCEPT
                    !.primary_symptoms = Append(@, symptom_name),
                    !.symptom_details =
                        @ @@ (symptom_name :> SymptomDetail(symptom_name))]
      IN  IF S1.current_symptom = None
          THEN [S1 EXCEPT !.current_symptom = Some(symptom_name)]
          ELSE S1

\* add_symptom storing the normalized name instead of the reported one
add_symptom_normalized(S, symptom_name) ==
    IF symptom_name = <<>>
    THEN S
    ELSE
      LET r == find_similar_symptom(S.primary_symptoms, symptom_name)
          stored == Strip(Lower(symptom_name))
          resolved == IF r[1] THEN r[2][1] ELSE stored
          S1 == IF ~r[1] /\ ~InList(stored, S.primary_symptoms)
                THEN [S EXCEPT
                        !.primary_symptoms = Append(@, stored),
                        !.symptom_details = @ @@ (stored :> SymptomDetail(stored))]
                ELSE S
      IN  IF S1.current_symptom = None
          THEN [S1 EXCEPT !.current_symptom = Some(resolved)]
          ELSE S1

\* add_symptom inserting a new name at the head of the list
add_symptom_front(S, symptom_name) ==
    IF symptom_name = <<>>
    THEN S
    ELSE
      LET r == find_similar_symptom(S.primary_symptoms, symptom_name)
          resolved == IF r[1] THEN r[2][1] ELSE symptom_name
          S1 == IF ~r[1] /\ ~InList(symptom_name, S.primary_symptoms)
                THEN [S EXCEPT
                        !.primary_symptoms = <<symptom_name>> \o @,
                        !.symptom_details =
                            @ @@ (symptom_name :> SymptomDetail(symptom_name))]
                ELSE S
      IN  IF S1.current_symptom = None
          THEN [S1 EXCEPT !.current_symptom = Some(resolved)]
          ELSE S1

\* add_symptom without the selection of a current symptom
add_symptom_no_select(S, symptom_name) ==
    IF symptom_name = <<>>
    THEN S
    ELSE
      LET r == find_similar_symptom(S.primary_symptoms, symptom_name)
      IN  IF ~r[1] /\ ~InList(symptom_name, S.primary_symptoms)
          THEN [S EXCEPT
                  !.primary_symptoms = Append(@, symptom_name),
                  !.symptom_details =
                      @ @@ (symptom_name :> SymptomDetail(symptom_name))]
          ELSE S

add_symptom(S, symptom_name) ==
    IF symptom_name = <<>>
    THEN S
    ELSE
      LET r == find_similar_symptom(S.primary_symptoms, symptom_name)
          resolved == IF r[1] THEN r[2][1] ELSE symptom_name
          S1 == IF ~r[1] /\ ~InList(symptom_name, S.primary_symptoms)
                THEN [S EXCEPT
                        !.primary_symptoms = Append(@, symptom_name),
                        !.symptom_details =
                            @ @@ (symptom_name :> SymptomDetail(symptom_name))]
                ELSE S
      IN  IF S1.current_symptom = None
          THEN [S1 EXCEPT !.current_symptom = Some(resolved)]
          ELSE S1

\* rotate_current_symptom without the wraparound
rotate_current_symptom_no_wrap(S) ==
    IF S.primary_symptoms = <<>>
    THEN S
    ELSE IF S.current_symptom = None
    THEN [S EXCEPT !.current_symptom = Some(S.primary_symptoms[1])]
    ELSE IF InList(S.current_symptom[1], S.primary_symptoms)
    THEN LET current_index == IndexOf(S.current_symptom[1], S.primary_symptoms)
             next_index == IF current_index < Len(S.primary_symptoms)
                           THEN current_index + 1 ELSE current_index
         IN  [S EXCEPT !.current_symptom = Some(S.primary_symptoms[next_index])]
    ELSE [S EXCEPT !.current_symptom = Some(S.primary_symptoms[1])]

\* rotate_current_symptom running off the end of the list: past the last
\* entry the current symptom becomes the empty name
rotate_current_symptom_off_list(S) ==
    IF S.primary_symptoms = <<>>
    THEN S
    ELSE IF S.current_symptom = None
    THEN [S EXCEPT !.current_symptom = Some(S.primary_symptoms[1])]
    ELSE IF InList(S.current_symptom[1], S.primary_symptoms)
    THEN LET current_index == IndexOf(S.current_symptom[1], S.primary_symptoms)
         IN  [S EXCEPT !.current_symptom =
                IF current_index < Len(S.primary_symptoms)
                THEN Some(S.primary_symptoms[current_index + 1])
                ELSE Some(<<>>)]
    ELSE [S EXCEPT !.current_symptom = Some(S.primary_symptoms[1])]

\* rotate_current_symptom that keeps a current symptom of the list
rotate_current_symptom_stay(S) ==
    IF S.primary_symptoms = <<>>
    THEN S
    ELSE IF S.current_symptom = None
    THEN [S EXCEPT !.current_symptom = Some(S.primary_symptoms[1])]
    ELSE IF InList(S.current_symptom[1], S.primary_symptoms)
    THEN S
    ELSE [S EXCEPT !.current_symptom = Some(S.primary_symptoms[1])]

\* rotate_current_symptom going back to the first symptom every time
rotate_current_symptom_first(S) ==
    IF S.primary_symptoms = <<>>
    THEN S
    ELSE [S EXCEPT !.current_symptom = Some(S.primary_symptoms[1])]

rotate_current_symptom(S) ==
    IF S.primary_symptoms = <<>>
    THEN S
    ELSE IF S.current_symptom = None
    THEN [S EXCEPT !.current_symptom = Some(S.primary_symptoms[1])]
    ELSE IF InList(S.current_symptom[1], S.primary_symptoms)
    THEN LET current_index == IndexOf(S.current_symptom[1], S.primary_symptoms)
             next_index == (current_index % Len(S.primary_symptoms)) + 1
         IN  [S EXCEPT !.current_symptom = Some(S.primary_symptoms[next_index])]
    ELSE [S EXCEPT !.current_symptom = Some(S.primary_symptoms[1])]

\* `not x` for an Optional[str]
FalsyStr(opt) == opt = None \/ opt[1] = ""

Piece(cond, field) == IF cond THEN <<field>> ELSE <<>>

\* the checks of missing_fields on one SymptomDetail, in the code's order
MissingOf(detail) ==
    Piece(detail.severity = None \/ detail.severity[1].level = None, "severity")
    \o Piece(detail.duration = None \/ detail.duration[1].start_date = None,
             "start_date")
    \o Piece(detail.duration # None /\ detail.duration[1].is_ongoing = None,
             "is_ongoing")
    \o Piece(Falsy(detail.characteristics), "characteristics")
    \o Piece(Falsy(detail.aggravating_factors), "aggravating_factors")
    \o Piece(Falsy(detail.relieving_factors), "relieving_factors")
    \o Piece(FalsyStr(detail.frequency), "frequency")
    \o Piece(FalsyStr(detail.intensity), "intensity")
    \o Piece(Falsy(detail.triggers), "triggers")
    \o Piece(Falsy(detail.associated_symptoms), "associated_symptoms")

\* missing_fields reporting is_ongoing also when no duration is recorded
missing_fields_no_duration(S, symptom_name) ==
    IF ~InList(symptom_name, S.primary_symptoms)
    THEN <<TRUE, <<>> >>
    ELSE IF symptom_name \notin DOMAIN S.symptom_details
    THEN <<FALSE, <<>> >>
    ELSE LET detail == S.symptom_details[symptom_name]
             m == MissingOf(detail)
         IN  <<FALSE,
               IF detail.duration = None
               THEN SubSeq(m, 1, 2) \o <<"is_ongoing">> \o SubSeq(m, 3, Len(m))
               ELSE m>>

\* <<raised ValueError, the list returned>>
missing_fields_of(S, symptom_name) ==
    IF ~InList(symptom_name, S.primary_symptoms)
    THEN <<TRUE, <<>> >>
    ELSE IF symptom_name \notin DOMAIN S.symptom_details
    THEN <<FALSE, <<>> >>
    ELSE <<FALSE, MissingOf(S.symptom_details[symptom_name])>>

\* detail: a dict, field name -> new value; model_copy(update=detail)
model_copy(old, detail) ==
    [f \in DOMAIN old |-> IF f \in DOMAIN detail THEN detail[f] ELSE old[f]]

\* <<raised ValueError, state after the call>>
update_symptom_detail(S, symptom_name, detail) ==
    IF ~InList(symptom_name, S.primary_symptoms)
    THEN <<TRUE, S>>
    ELSE
      LET S1 == IF symptom_name \notin DOMAIN S.symptom_details
                THEN add_symptom(S, symptom_name)
                ELSE S
      IN  <<FALSE,
            [S1 EXCEPT !.symptom_details[symptom_name] = model_copy(@, detail)]>>

-----------------------------------------------------------------------------
(* model_dump and model_validate, and the rows of the thread store *)

\* a JSON value: its kind, and what it holds unless it is null
JsonNull == <<"null">>

JsonOf(kind, opt) == IF opt = None THEN JsonNull ELSE <<kind, opt[1]>>

OptionalOf(json) == IF json[1] = "null" THEN None ELSE Some(json[2])

ListFields == {"characteristics", "aggravating_factors", "relieving_factors",
               "triggers", "associated_symptoms"}

dump_detail(detail) ==
    [f \in DOMAIN detail |->
        IF detail[f] = None THEN JsonNull
        ELSE IF f = "severity"
        THEN <<"object", [level |-> JsonOf("number", detail[f][1].level)]>>
        ELSE IF f = "duration"
        THEN <<"object",
               [start_date |-> JsonOf("string", detail[f][1].start_date),
                end_date   |-> JsonOf("string", detail[f][1].end_date),
                is_ongoing |-> JsonOf("boolean", detail[f][1].is_ongoing)]>>
        ELSE IF f \in ListFields THEN <<"array", detail[f][1]>>
        ELSE <<"string", detail[f][1]>>]

validate_detail(data) ==
    [f \in DOMAIN data |->
        IF data[f][1] = "null" THEN None
        ELSE IF f = "severity"
        THEN Some(Severity(OptionalOf(data[f][2].level)))
        ELSE IF f = "duration"
        THEN Some(Duration(OptionalOf(data[f][2].start_date),
                           OptionalOf(data[f][2].end_date),
                           OptionalOf(data[f][2].is_ongoing)))
        ELSE Some(data[f][2])]

model_dump(S) ==
    [primary_symptoms |-> S.primary_symptoms,
     symptom_details  |-> [n \in DOMAIN S.symptom_details |->
                              dump_detail(S.symptom_details[n])],
     current_symptom  |-> JsonOf("string", S.current_symptom)]

\* model_validate reading the fields of the dict except current_symptom
model_validate_no_current(data) ==
    [primary_symptoms |-> data.primary_symptoms,
     symptom_details  |-> [n \in DOMAIN data.symptom_details |->
                              validate_detail(data.symptom_details[n])],
     current_symptom  |-> None]

model_validate(data) ==
    [primary_symptoms |-> data.primary_symptoms,
     symptom_details  |-> [n \in DOMAIN data.symptom_details |->
                              validate_detail(data.symptom_details[n])],
     current_symptom  |-> OptionalOf(data.current_symptom)]

Message(role, content) == [role |-> role, content |-> content]

\* one more row; its timestamp is later than those of the rows before it
save_message(rows, role, content) == Append(rows, Message(role, content))

\* the rows in timestamp order
get_thread_history(rows) == rows

\* a save that inserts a row whether or not the thread has one
save_symptom_data_insert(rows, data) == Append(rows, data)

\* rows: the symptom_data of the rows of thread_symptoms with this thread_id.
\* The rows are updated if there are any and one is inserted if not; the dict
\* is stored as its JSON text.
save_symptom_data(rows, data) ==
    IF rows # <<>> THEN [i \in 1..Len(rows) |-> data] ELSE <<data>>

\* fetchone(): the dict of the first row, None without a row
get_symptom_data(rows) == IF rows # <<>> THEN Some(rows[1]) ELSE None

-----------------------------------------------------------------------------
(* Bounds of the model *)

\* longest ledger the calls may build
MaxSymptoms == 3

\* longest run of consecutive rotate_current_symptom calls that is counted
MaxRotations == 4

-----------------------------------------------------------------------------
(* Names handed to the ledger by its callers *)

EmptyName == <<>>

BlankName == <<" ">>

fever == <<"f","e","v","e","r">>

Fever == <<"F","e","v","e","r">>

fever_padded == <<"f","e","v","e","r"," ">>

fever_mild == <<"f","e","v","e","r"," ","m","i","l","d">>

mild_fever == <<"m","i","l","d"," ","f","e","v","e","r">>

mild == <<"m","i","l","d">>

cough == <<"c","o","u","g","h">>

rash == <<"r","a","s","h">>

NamePool ==
    {EmptyName, BlankName, fever, Fever, fever_padded, mild_fever, fever_mild,
     mild, cough}

\* "m X" and "X m" for every stored name X and every modifier m
ModifierForms(primary_symptoms) ==
    UNION {{Spaced(modifiers[k], primary_symptoms[i]),
            Spaced(primary_symptoms[i], modifiers[k])} :
           i \in 1..Len(primary_symptoms), k \in 1..Len(modifiers)}

QueryNames == NamePool \cup ModifierForms(symptom_state.primary_symptoms)

primary == symptom_state.primary_symptoms

details == symptom_state.symptom_details

current == symptom_state.current_symptom

Positions == 1..Len(primary)

NoCall == [op |-> "none", arg |-> <<>>, ret |-> <<>>]

-----------------------------------------------------------------------------
(* The conversation state outside a turn, as initialize_state builds it *)

\* user_input = "": a text of no words
NoInput == <<>>

\* the dict {}: its keys in insertion order and the dict stored under each
NoExtracted == [keys |-> <<>>, vals |-> EmptyDict]

\* the reply "" of a state that has none yet
NoReply == <<>>

\* state["filename"] of a state without a staged file
NoFilename == <<>>

\* the tables create_conversation_tables leaves in a new database, as the
\* sequences of their rows in insertion order; the time datetime.now reads
\* next; the calls that have read the time and not yet committed
EmptyStore ==
    [conversation_threads |-> <<>>, conversation_messages |-> <<>>,
     thread_symptoms |-> <<>>, thread_medications |-> <<>>,
     now |-> 0, pending |-> {}]

IdleTurn ==
    /\ user_input = NoInput
    /\ ai_response = NoReply
    /\ chat_history = <<>>
    /\ held = None
    /\ messages = <<>>
    /\ symptom_data = None
    /\ filename = NoFilename
    /\ store = EmptyStore
    /\ other = None
    /\ current_action = "chat"
    /\ node = "idle"
    /\ extracted_symptoms = NoExtracted
    /\ missing_fields = <<>>
    /\ follow_up_count = 0
    /\ steps = 0
    /\ rotations = 0

\* the reply, the transcript and the store of the thread
ThreadVars == <<ai_response, chat_history, held, messages, symptom_data,
               filename, store, other>>

TurnVars == <<user_input, current_action, node, extracted_symptoms,
              missing_fields, follow_up_count, rotations, ThreadVars>>

\* a direct call that is not counted
FreeStep == UNCHANGED steps

-----------------------------------------------------------------------------
(* Direct calls of the SymptomState methods (as the tests make them) *)

\* ret tells whether this is the first call with this name or a repetition
\* of the call just made
AddSymptomCall(n) ==
    /\ node = "idle"
    /\ Len(add_symptom(symptom_state, n).primary_symptoms) <= MaxSymptoms
    /\ symptom_state' = add_symptom(symptom_state, n)
    /\ call' = [op |-> "add_symptom", arg |-> n,
                ret |-> IF call.op = "add_symptom" /\ call.arg = n
                        THEN <<2>> ELSE <<1>>]
    /\ UNCHANGED TurnVars

FindSimilarCall(n) ==
    /\ node = "idle"
    /\ call' = [op |-> "find_similar_symptom", arg |-> n,
                ret |-> find_similar_symptom(symptom_state.primary_symptoms, n)]
    /\ UNCHANGED <<symptom_state, TurnVars>>

\* ret counts the rotations of the current run, arg holds current_symptom
\* as it was when the run began
RotateCall ==
    /\ node = "idle"
    /\ LET run == call.op = "rotate_current_symptom"
           k == IF run THEN call.ret[1] + 1 ELSE 1
       IN  /\ k <= MaxRotations
           /\ call' = [op |-> "rotate_current_symptom",
                       arg |-> IF run THEN call.arg
                               ELSE symptom_state.current_symptom,
                       ret |-> <<k>>]
    /\ symptom_state' = rotate_current_symptom(symptom_state)
    /\ UNCHANGED TurnVars

\* the updates the direct calls make: one severity
DetailUpdates == {("severity" :> Some(Severity(Some(5))))}

UpdateSymptomDetailCall(n, detail) ==
    /\ node = "idle"
    /\ symptom_state' = update_symptom_detail(symptom_state, n, detail)[2]
    /\ call' = [op |-> "update_symptom_detail", arg |-> n,
                ret |-> <<update_symptom_detail(symptom_state, n, detail)[1]>>]
    /\ UNCHANGED TurnVars

InitLedger ==
    /\ symptom_state = SymptomState0
    /\ call = NoCall
    /\ IdleTurn

NextLedger ==
    \/ \E n \in NamePool : AddSymptomCall(n) /\ FreeStep
    \/ RotateCall /\ FreeStep
    \/ \E n \in {fever, cough} \cup {primary[i] : i \in Positions},
          d \in DetailUpdates : UpdateSymptomDetailCall(n, d) /\ FreeStep

SpecLedger == InitLedger /\ [][NextLedger]_vars

\* the ledger built by add_symptom, queried with every modifier form of
\* every stored name
NextSimilar ==
    \/ \E n \in NamePool : AddSymptomCall(n) /\ FreeStep
    \/ \E n \in QueryNames : FindSimilarCall(n) /\ FreeStep

SpecSimilar == InitLedger /\ [][NextSimilar]_vars

-----------------------------------------------------------------------------
(* rotate_current_symptom on ledgers constructed directly, as
   SymptomState(primary_symptoms=..., symptom_details=..., current_symptom=...) *)

RotatePool == {fever, cough, mild, BlankName}

RECURSIVE DistinctSeqs(_, _)
DistinctSeqs(S, n) ==
    IF n = 0 THEN {<<>>}
    ELSE {<<>>} \cup
         UNION {{<<x>> \o t : t \in DistinctSeqs(S \ {x}, n - 1)} : x \in S}

ConstructedLedger(names, cur) ==
    [primary_symptoms |-> names,
     symptom_details |-> [x \in {names[i] : i \in 1..Len(names)} |-> SymptomDetail(x)],
     current_symptom |-> cur]

InitRotate ==
    /\ \E names \in DistinctSeqs(RotatePool, MaxSymptoms) :
         \E cur \in {None} \cup {Some(names[i]) : i \in 1..Len(names)} :
            symptom_state = ConstructedLedger(names, cur)
    /\ call = NoCall
    /\ IdleTurn

NextRotate == RotateCall /\ FreeStep

SpecRotate == InitRotate /\ [][NextRotate]_vars

-----------------------------------------------------------------------------
(* missing_fields on every SymptomDetail a record can hold *)

SeverityValues == {None, Some(Severity(None)), Some(Severity(Some(5)))}

DateValues == {None, Some("2024-05-01T00:00:00")}

DurationValues ==
    {None} \cup {Some(Duration(s, e, o)) :
                    s \in DateValues, e \in DateValues,
                    o \in {None, Some(TRUE), Some(FALSE)}}

ListValues == {None, Some(<<>>), Some(<<"x">>)}

StrValues == {None, Some(""), Some("x")}

DetailSpace(name) ==
    [name : {Some(name)}, severity : SeverityValues, duration : DurationValues,
     characteristics : ListValues, aggravating_factors : ListValues,
     relieving_factors : ListValues, frequency : StrValues,
     intensity : StrValues, triggers : ListValues,
     associated_symptoms : ListValues]

MissingFieldsCall(n) ==
    /\ node = "idle"
    /\ call' = [op |-> "missing_fields", arg |-> n,
                ret |-> missing_fields_of(symptom_state, n)]
    /\ UNCHANGED <<symptom_state, TurnVars>>

InitFields ==
    /\ \E d \in DetailSpace(fever) :
          symptom_state = [primary_symptoms |-> <<fever>>,
                           symptom_details |-> (fever :> d),
                           current_symptom |-> Some(fever)]
    /\ call = NoCall
    /\ IdleTurn

NextFields == \E n \in {fever, cough} : MissingFieldsCall(n) /\ FreeStep

SpecFields == InitFields /\ [][NextFields]_vars

-----------------------------------------------------------------------------
(* The conversation graph: one turn of process_user_input.  A text is the
   sequence of its words.  state["filename"] is "" on every thread modelled
   here, so check_symptom_context never routes to the medication nodes. *)

MAX_MISSING_FIELDS_TO_ASK == 2

MAX_FOLLOW_UP_QUESTIONS == 3

\* 0.4, in tenths
SYMPTOM_COMPLETION_THRESHOLD == 4

\* the number of tracked fields a completion ratio is taken over
TRACKED_FIELD_COUNT == 10

END == "__end__"

\* turns (and counted direct calls) one thread takes
MaxSteps == 4

\* most turns of a thread where turns alone are taken
MaxTurns == 3

\* fields of one question that one utterance answers
MaxAnswered == 2

\* a turn, or a direct call that is counted
CountedStep == steps < MaxSteps /\ steps' = steps + 1

Summarize == <<"S","u","m","m","a","r","i","z","e">>

summarize == <<"s","u","m","m","a","r","i","z","e">>

recap == <<"r","e","c","a","p">>

sick == <<"s","i","c","k">>

Utterances == {NoInput, <<Summarize>>, <<sick>>}

\* re.search(r"\b(summarize|recap)\b", user_input.lower())
summary_requested(text) ==
    \E i \in 1..Len(text) : Lower(text[i]) \in {summarize, recap}

upload == <<"u","p","l","o","a","d">>

medication == <<"m","e","d","i","c","a","t","i","o","n">>

medicine == <<"m","e","d","i","c","i","n","e">>

prescription == <<"p","r","e","s","c","r","i","p","t","i","o","n">>

\* "upload" in user_input or "medication" in user_input or ...: a keyword
\* holds no space, so it occurs in the text when it occurs in one of its words
medication_requested(text) ==
    \E i \in 1..Len(text) :
        \E keyword \in {upload, medication, medicine, prescription} :
            Contains(keyword, Lower(text[i]))

\* a staged file
label_png == <<"a",".","p","n","g">>

\* check_symptom_context testing the medication rule before the summary rule
check_symptom_context_medication_first(text, staged) ==
    IF text = NoInput THEN "generate_response"
    ELSE IF medication_requested(text) /\ staged # NoFilename
    THEN "prepare_medication_upload"
    ELSE IF summary_requested(text) THEN "generate_summary"
    ELSE "extract_symptoms"

\* check_symptom_context without the summary rule
check_symptom_context_no_summary(text, staged) ==
    IF text = NoInput THEN "generate_response"
    ELSE IF medication_requested(text) /\ staged # NoFilename
    THEN "prepare_medication_upload"
    ELSE "extract_symptoms"

check_symptom_context(text, staged) ==
    IF text = NoInput THEN "generate_response"
    ELSE IF summary_requested(text) THEN "generate_summary"
    ELSE IF medication_requested(text) /\ staged # NoFilename
    THEN "prepare_medication_upload"
    ELSE "extract_symptoms"

\* the current_action chat returns
chat(text, staged) ==
    IF text # NoInput THEN check_symptom_context(text, staged)
    ELSE "generate_response"

\* the lists SymptomExtractor.extract_symptoms returns: names already stripped
ExtractedNames == <<fever, mild_fever, cough, rash>>

\* no name, one name, or two names
SymptomLists ==
    {<<>>} \cup {<<ExtractedNames[i]>> : i \in DOMAIN ExtractedNames}
           \cup {<<ExtractedNames[p[1]], ExtractedNames[p[2]]>> :
                    p \in {q \in (DOMAIN ExtractedNames) \X (DOMAIN ExtractedNames) :
                             q[1] < q[2]}}

\* the keys of {symptom: {} for symptom in symptom_list}, in insertion order
RECURSIVE DictKeys(_)
DictKeys(symptom_list) ==
    IF symptom_list = <<>> THEN <<>>
    ELSE LET front == DictKeys(SubSeq(symptom_list, 1, Len(symptom_list) - 1))
             last == symptom_list[Len(symptom_list)]
         IN  IF InList(last, front) THEN front ELSE Append(front, last)

DictOf(symptom_list) ==
    [keys |-> DictKeys(symptom_list),
     vals |-> [k \in {symptom_list[i] : i \in 1..Len(symptom_list)} |-> EmptyDict]]

\* for symptom in extracted_symptoms.keys(): symptom_state.add_symptom(symptom)
\* (the state after each add_symptom is a value before the next one is made)
RECURSIVE AddAll(_, _)
AddAll(S, keys) ==
    IF keys = <<>> THEN S
    ELSE CHOOSE after \in {AddAll(added, Tail(keys)) :
                              added \in {add_symptom(S, Head(keys))}} : TRUE

\* the key of extracted_symptoms[current_symptom] a missing field is stored under
DetailKey(missing_field) ==
    IF missing_field \in {"start_date", "is_ongoing"} THEN "duration"
    ELSE missing_field

\* what the SymptomDetailExtractor can find for one field, when it finds
\* anything: a level, a Duration with some value set, a non-empty list or text
FieldAnswers(missing_field) ==
    IF missing_field = "severity" THEN {Some(Severity(Some(5)))}
    ELSE IF missing_field \in {"start_date", "is_ongoing"}
    THEN {Some(Duration(s, None, o)) :
            s \in DateValues, o \in {None, Some(TRUE)}}
         \ {Some(Duration(None, None, None))}
    ELSE IF missing_field \in {"characteristics", "aggravating_factors",
                               "relieving_factors", "triggers",
                               "associated_symptoms"}
    THEN {Some(<<"x">>)}
    ELSE {Some("x")}

\* every dict field -> answer over the given fields
RECURSIVE AnswersOver(_)
AnswersOver(fields) ==
    IF fields = {} THEN {EmptyDict}
    ELSE LET f == CHOOSE x \in fields : TRUE
             rest == AnswersOver(fields \ {f})
         IN  rest \cup {(f :> v) @@ a : v \in FieldAnswers(f), a \in rest}

\* the answers one utterance gives: a value for some of the asked fields
AnswerChoices(asked) ==
    {a \in AnswersOver({asked[i] : i \in 1..Len(asked)}) :
        Cardinality(DOMAIN a) <= MaxAnswered}

\* the loop of extract_details over missing_fields, on extracted_symptoms[current]
RECURSIVE FillDetails(_, _, _)
FillDetails(dict, asked, answers) ==
    IF asked = <<>> THEN dict
    ELSE LET f == Head(asked)
             filled == IF f \in DOMAIN answers
                       THEN (DetailKey(f) :> answers[f]) @@ dict
                       ELSE dict
         IN  FillDetails(filled, Tail(asked), answers)

\* completion_ratio = 1 - len(missing_fields)/10, in tenths
completion_ratio(S, symptom_name) ==
    TRACKED_FIELD_COUNT - Len(missing_fields_of(S, symptom_name)[2])

is_symptom_tracking_completed(S, threshold) ==
    \A i \in 1..Len(S.primary_symptoms) :
        completion_ratio(S, S.primary_symptoms[i]) >= threshold

\* all_symptoms_documented looking at the current symptom only
all_symptoms_documented_current(S) ==
    completion_ratio(S, S.current_symptom[1]) >= SYMPTOM_COMPLETION_THRESHOLD

all_symptoms_documented(S) ==
    is_symptom_tracking_completed(S, SYMPTOM_COMPLETION_THRESHOLD)

\* a rotation that leaves the follow-up counter alone
keep_follow_up_count(count) == count

\* follow_up_count = 0 after a rotation
reset_follow_up_count(count) == 0

\* the question asks about every missing field
all_missing_fields(missing) == missing

\* missing_fields[:MAX_MISSING_FIELDS_TO_ASK]
top_missing_fields(missing) ==
    SubSeq(missing, 1, IF Len(missing) < MAX_MISSING_FIELDS_TO_ASK
                       THEN Len(missing) ELSE MAX_MISSING_FIELDS_TO_ASK)

\* the state determine_next_action returns; rotations counts its calls of
\* rotate_current_symptom, raised tells that missing_fields raised uncaught
determine_next_action(S, count, asked) ==
    IF S.primary_symptoms = <<>>
    THEN [symptom_state |-> S, missing_fields |-> asked,
          follow_up_count |-> count, current_action |-> "generate_response",
          rotations |-> 0, raised |-> FALSE]
    ELSE
      LET S1 == IF Falsy(S.current_symptom)
                THEN [S EXCEPT !.current_symptom = Some(S.primary_symptoms[1])]
                ELSE S
          should_rotate == count >= MAX_FOLLOW_UP_QUESTIONS
          S2 == IF should_rotate THEN rotate_current_symptom(S1) ELSE S1
          count2 == IF should_rotate THEN reset_follow_up_count(count) ELSE count
          r2 == IF should_rotate THEN 1 ELSE 0
          m == missing_fields_of(S2, S2.current_symptom[1])
          S3 == rotate_current_symptom(S2)
          new == IF Falsy(S3.current_symptom) THEN <<FALSE, <<>> >>
                 ELSE missing_fields_of(S3, S3.current_symptom[1])
      IN  IF all_symptoms_documented(S1)
          THEN [symptom_state |-> S1, missing_fields |-> asked,
                follow_up_count |-> count,
                current_action |-> "generate_healthcare_recommendation",
                rotations |-> 0, raised |-> FALSE]
          ELSE IF m[1]
          THEN [symptom_state |-> S2, missing_fields |-> asked,
                follow_up_count |-> count, current_action |-> "generate_response",
                rotations |-> r2, raised |-> FALSE]
          ELSE IF m[2] # <<>>
          THEN [symptom_state |-> S2,
                missing_fields |-> top_missing_fields(m[2]),
                follow_up_count |-> count2, current_action |-> "generate_question",
                rotations |-> r2, raised |-> FALSE]
          ELSE IF new[2] # <<>>
          THEN [symptom_state |-> S3, missing_fields |-> new[2],
                follow_up_count |-> reset_follow_up_count(count2),
                current_action |-> "generate_question",
                rotations |-> r2 + 1, raised |-> FALSE]
          ELSE [symptom_state |-> S3, missing_fields |-> asked,
                follow_up_count |-> reset_follow_up_count(count2),
                current_action |-> "generate_response",
                rotations |-> r2 + 1, raised |-> new[1]]

\* what a prompt is completed with, and the text generate_summary builds
Reply == << <<"o","k">> >>

Completions == {Reply}

session_summary == << <<"s","y","m","p","t","o","m","s">> >>

\* the state dict the caller passes; the caller keeps it while the turn runs
CallerState ==
    [symptom_state |-> symptom_state,
     user_input |-> user_input,
     current_action |-> current_action,
     extracted_symptoms |-> extracted_symptoms,
     missing_fields |-> missing_fields,
     follow_up_count |-> follow_up_count,
     ai_response |-> ai_response]

TurnBegins(text) ==
    /\ node = "idle"
    /\ CountedStep
    /\ messages' = save_message(messages, "user", text)
    /\ user_input' = text
    /\ current_action' = "check_symptom_context"
    /\ node' = "chat"
    /\ rotations' = 0
    /\ call' = NoCall
    /\ UNCHANGED <<symptom_state, extracted_symptoms, missing_fields,
                   follow_up_count, ai_response, chat_history, symptom_data>>

\* a turn whose port calls return: the dict the caller passed is not read
\* again, the caller replaces it by the one returned
ProcessUserInput(text) ==
    /\ TurnBegins(text)
    /\ held' = None
    /\ UNCHANGED <<filename, store, other>>

\* content: the completion of the greeting prompt
Chat(content) ==
    /\ node = "chat"
    /\ current_action' = chat(user_input, filename)
    /\ ai_response' = IF user_input # NoInput THEN ai_response ELSE content
    /\ node' = current_action'
    /\ UNCHANGED <<symptom_state, user_input, extracted_symptoms,
                   missing_fields, follow_up_count, steps, rotations, call,
                   chat_history, held, messages, symptom_data, filename,
                   store, other>>

ExtractSymptoms(symptom_list) ==
    /\ node = "extract_symptoms"
    /\ Len(AddAll(symptom_state, DictKeys(symptom_list)).primary_symptoms)
          <= MaxSymptoms
    /\ IF user_input = NoInput
       THEN UNCHANGED <<extracted_symptoms, current_action>>
       ELSE /\ extracted_symptoms' = DictOf(symptom_list)
            /\ current_action' = "process_symptoms"
    /\ node' = "process_symptoms"
    /\ UNCHANGED <<symptom_state, user_input, missing_fields, follow_up_count,
                   steps, rotations, call, ThreadVars>>

ProcessSymptoms ==
    /\ node = "process_symptoms"
    /\ symptom_state' = AddAll(symptom_state, extracted_symptoms.keys)
    /\ current_action' = "extract_details"
    /\ node' = "extract_details"
    /\ UNCHANGED <<user_input, extracted_symptoms, missing_fields,
                   follow_up_count, steps, rotations, call, ThreadVars>>

ExtractDetails(answers) ==
    /\ node = "extract_details"
    /\ IF primary = <<>> \/ Falsy(current)
       THEN /\ current_action' = "generate_response"
            /\ UNCHANGED extracted_symptoms
       ELSE LET current_symptom == current[1]
                keys == IF InList(current_symptom, extracted_symptoms.keys)
                        THEN extracted_symptoms.keys
                        ELSE Append(extracted_symptoms.keys, current_symptom)
                vals == extracted_symptoms.vals
                        @@ (current_symptom :> EmptyDict)
            IN  /\ extracted_symptoms' =
                      [keys |-> keys,
                       vals |-> [vals EXCEPT ![current_symptom] =
                                    FillDetails(@, missing_fields, answers)]]
                /\ current_action' = "update_symptom_details"
    /\ node' = "update_symptom_details"
    /\ UNCHANGED <<symptom_state, user_input, missing_fields, follow_up_count,
                   steps, rotations, call, ThreadVars>>

UpdateSymptomDetails ==
    /\ node = "update_symptom_details"
    /\ IF Falsy(current)
       THEN UNCHANGED <<symptom_state, follow_up_count>>
       ELSE LET current_symptom == current[1]
            IN  /\ symptom_state' =
                      IF /\ InList(current_symptom, extracted_symptoms.keys)
                         /\ extracted_symptoms.vals[current_symptom] # EmptyDict
                      THEN update_symptom_detail(
                               symptom_state, current_symptom,
                               extracted_symptoms.vals[current_symptom])[2]
                      ELSE symptom_state
                /\ follow_up_count' = follow_up_count + 1
    /\ current_action' = "determine_next_action"
    /\ node' = "determine_next_action"
    /\ UNCHANGED <<user_input, extracted_symptoms, missing_fields, steps,
                   rotations, call, ThreadVars>>

DetermineNextAction ==
    /\ node = "determine_next_action"
    /\ LET next == determine_next_action(symptom_state, follow_up_count,
                                         missing_fields)
       IN  /\ ~next.raised
           /\ symptom_state' = next.symptom_state
           /\ missing_fields' = next.missing_fields
           /\ follow_up_count' = next.follow_up_count
           /\ current_action' = next.current_action
           /\ rotations' = next.rotations
           /\ node' = next.current_action
    /\ UNCHANGED <<user_input, extracted_symptoms, steps, call, ThreadVars>>

\* content: the completion of the question prompt
GenerateQuestion(content) ==
    /\ node = "generate_question"
    /\ IF Falsy(current) \/ missing_fields = <<>>
       THEN /\ current_action' = "generate_response"
            /\ UNCHANGED ai_response
       ELSE /\ current_action' = "update_history"
            /\ ai_response' = content
    /\ node' = "update_history"
    /\ UNCHANGED <<symptom_state, user_input, extracted_symptoms,
                   missing_fields, follow_up_count, steps, rotations, call,
                   chat_history, held, messages, symptom_data, filename,
                   store, other>>

\* content: the completion of the response prompt after the quality check
GenerateResponse(content) ==
    /\ node = "generate_response"
    /\ ai_response' = IF user_input = NoInput THEN ai_response ELSE content
    /\ current_action' = "update_history"
    /\ node' = "update_history"
    /\ UNCHANGED <<symptom_state, user_input, extracted_symptoms,
                   missing_fields, follow_up_count, steps, rotations, call,
                   chat_history, held, messages, symptom_data, filename,
                   store, other>>

GenerateSummary ==
    /\ node = "generate_summary"
    /\ ai_response' = session_summary
    /\ current_action' = "update_history"
    /\ node' = "update_history"
    /\ UNCHANGED <<symptom_state, user_input, extracted_symptoms,
                   missing_fields, follow_up_count, steps, rotations, call,
                   chat_history, held, messages, symptom_data, filename,
                   store, other>>

\* content: the completion of the healthcare prompt
GenerateHealthcareRecommendation(content) ==
    /\ node = "generate_healthcare_recommendation"
    /\ ai_response' = content
    /\ current_action' = "update_history"
    /\ node' = "update_history"
    /\ UNCHANGED <<symptom_state, user_input, extracted_symptoms,
                   missing_fields, follow_up_count, steps, rotations, call,
                   chat_history, held, messages, symptom_data, filename,
                   store, other>>

\* update_history leaving the reply out
update_history_no_reply(history, text, reply) ==
    IF text # NoInput THEN Append(history, Message("user", text)) ELSE history

\* update_history putting the reply before the utterance
update_history_reply_first(history, text, reply) ==
    <<Message("assistant", reply)>> \o
    (IF text # NoInput THEN Append(history, Message("user", text))
     ELSE history)

\* update_history(state)["chat_history"]
update_history(history, text, reply) ==
    (IF text # NoInput THEN Append(history, Message("user", text))
     ELSE history) \o <<Message("assistant", reply)>>

\* the last node, and what process_user_input does with the state the graph
\* returns before it hands it to its caller
UpdateHistory ==
    /\ node = "update_history"
    /\ chat_history' = update_history(chat_history, user_input, ai_response)
    /\ current_action' = END
    /\ messages' = IF ai_response # NoReply
                   THEN save_message(messages, "assistant", ai_response)
                   ELSE messages
    /\ symptom_data' = IF primary # <<>>
                       THEN save_symptom_data(symptom_data,
                                              model_dump(symptom_state))
                       ELSE symptom_data
    /\ held' = None
    /\ node' = "idle"
    /\ UNCHANGED <<symptom_state, user_input, extracted_symptoms,
                   missing_fields, follow_up_count, steps, rotations, call,
                   ai_response, filename,
                   store, other>>

Init ==
    /\ symptom_state = SymptomState0
    /\ call = NoCall
    /\ IdleTurn

Next ==
    \/ \E text \in Utterances : steps < MaxTurns /\ ProcessUserInput(text)
    \/ \E content \in Completions : Chat(content)
    \/ \E symptom_list \in SymptomLists : ExtractSymptoms(symptom_list)
    \/ ProcessSymptoms
    \/ \E answers \in AnswerChoices(missing_fields) : ExtractDetails(answers)
    \/ UpdateSymptomDetails
    \/ DetermineNextAction
    \/ \E content \in Completions : GenerateQuestion(content)
    \/ \E content \in Completions : GenerateResponse(content)
    \/ GenerateSummary
    \/ \E content \in Completions :
          GenerateHealthcareRecommendation(content)
    \/ UpdateHistory

Spec == Init /\ [][Next]_vars

-----------------------------------------------------------------------------
(* Turns interleaved with direct calls of the SymptomState methods between
   turns, as a caller holding the returned state can make them *)

\* an update that fills every tracked field
FullDetail ==
    [f \in {"severity", "duration", "characteristics", "aggravating_factors",
            "relieving_factors", "frequency", "intensity", "triggers",
            "associated_symptoms"} |->
        IF f = "severity" THEN Some(Severity(Some(5)))
        ELSE IF f = "duration"
        THEN Some(Duration(Some("2024-05-01T00:00:00"), None, Some(TRUE)))
        ELSE IF f \in {"frequency", "intensity"} THEN Some("x")
        ELSE Some(<<"x">>)]

\* the turns of this specification take fewer inputs: one extraction per
\* ledger shape, and an utterance that answers the first asked field or none
MixedLists == {<<>>, <<fever>>, <<mild_fever, cough>>}

FirstAnswers(asked) ==
    {a \in AnswerChoices(asked) : \A f \in DOMAIN a : f = asked[1]}

\* an utterance that answers every asked field or none of them
WholeAnswers(asked) ==
    LET fields == {asked[i] : i \in 1..Len(asked)}
    IN  {EmptyDict} \cup
        (IF Cardinality(fields) <= MaxAnswered
         THEN {a \in AnswersOver(fields) : DOMAIN a = fields}
         ELSE {})

NextMixed ==
    \/ \E text \in Utterances : ProcessUserInput(text)
    \/ \E content \in Completions : Chat(content)
    \/ \E symptom_list \in MixedLists : ExtractSymptoms(symptom_list)
    \/ ProcessSymptoms
    \/ \E answers \in FirstAnswers(missing_fields) : ExtractDetails(answers)
    \/ UpdateSymptomDetails
    \/ DetermineNextAction
    \/ \E content \in Completions : GenerateQuestion(content)
    \/ \E content \in Completions : GenerateResponse(content)
    \/ GenerateSummary
    \/ \E content \in Completions :
          GenerateHealthcareRecommendation(content)
    \/ UpdateHistory
    \/ \E n \in {fever, cough} : AddSymptomCall(n) /\ CountedStep
    \/ RotateCall /\ CountedStep
    \/ \E n \in {cough} \cup {primary[i] : i \in Positions} :
          UpdateSymptomDetailCall(n, FullDetail) /\ CountedStep

SpecMixed == Init /\ [][NextMixed]_vars

-----------------------------------------------------------------------------
(* The first turn of a fresh thread.  The extractor splits the completion at
   commas and strips the pieces, so "fever," and an empty completion both
   leave an empty name in the list.  A first turn never goes to
   generate_healthcare_recommendation: a new record has 9 fields missing. *)

FirstTurnLists ==
    SymptomLists \cup {<<n>> : n \in {EmptyName, Fever, mild, fever_mild}}
                 \cup {<<fever, EmptyName>>, <<Fever, fever>>}

NextFirstTurn ==
    \/ \E text \in Utterances : steps = 0 /\ ProcessUserInput(text)
    \/ \E content \in Completions : Chat(content)
    \/ \E symptom_list \in FirstTurnLists : ExtractSymptoms(symptom_list)
    \/ ProcessSymptoms
    \/ \E answers \in AnswerChoices(missing_fields) : ExtractDetails(answers)
    \/ UpdateSymptomDetails
    \/ DetermineNextAction
    \/ \E content \in Completions : GenerateQuestion(content)
    \/ \E content \in Completions : GenerateResponse(content)
    \/ GenerateSummary
    \/ UpdateHistory

SpecFirstTurn == Init /\ [][NextFirstTurn]_vars

-----------------------------------------------------------------------------
(* Turns in which a port call may raise.  No node and no caller on the path
   of a turn handles an exception of the language model or of an extractor:
   conversation_graph.invoke and process_user_input raise it on. *)

\* the node about to run calls a port before it returns
CallsPort ==
    \/ node = "chat" /\ user_input = NoInput
    \/ node = "extract_symptoms" /\ user_input # NoInput
    \/ /\ node = "extract_details"
       /\ primary # <<>> /\ ~Falsy(current) /\ missing_fields # <<>>
    \/ node = "generate_question" /\ ~(Falsy(current) \/ missing_fields = <<>>)
    \/ node = "generate_response" /\ user_input # NoInput
    \/ node = "generate_healthcare_recommendation"

\* a turn whose caller keeps the dict it passed, to go on with it if the
\* call raises
ProcessUserInputHolding(text) ==
    /\ TurnBegins(text)
    /\ held' = Some(CallerState)
    /\ UNCHANGED <<filename, store, other>>

\* The port call of the node raises and process_user_input raises to its
\* caller, whose state is the dict it passed.  shared: the graph hands the
\* nodes the SymptomState object of that dict, which process_symptoms,
\* update_symptom_details and determine_next_action change in place, and not
\* a copy of it.
PortRaises(shared) ==
    /\ held # None
    /\ CallsPort
    /\ symptom_state' = IF shared THEN symptom_state ELSE held[1].symptom_state
    /\ user_input' = held[1].user_input
    /\ current_action' = held[1].current_action
    /\ extracted_symptoms' = held[1].extracted_symptoms
    /\ missing_fields' = held[1].missing_fields
    /\ follow_up_count' = held[1].follow_up_count
    /\ ai_response' = held[1].ai_response
    /\ call' = [op |-> "process_user_input", arg |-> user_input,
                ret |-> <<"raised">>]
    /\ held' = None
    /\ rotations' = 0
    /\ node' = "idle"
    /\ UNCHANGED <<steps, chat_history, messages, symptom_data, filename,
                   store, other>>

NextFailure ==
    \/ \E text \in Utterances : steps < MaxTurns /\ ProcessUserInputHolding(text)
    \/ \E content \in Completions : Chat(content)
    \/ \E symptom_list \in MixedLists : ExtractSymptoms(symptom_list)
    \/ ProcessSymptoms
    \/ \E answers \in AnswerChoices(missing_fields) : ExtractDetails(answers)
    \/ UpdateSymptomDetails
    \/ DetermineNextAction
    \/ \E content \in Completions : GenerateQuestion(content)
    \/ \E content \in Completions : GenerateResponse(content)
    \/ GenerateSummary
    \/ \E content \in Completions :
          GenerateHealthcareRecommendation(content)
    \/ UpdateHistory
    \/ \E shared \in BOOLEAN : PortRaises(shared)

SpecFailure == Init /\ [][NextFailure]_vars

-----------------------------------------------------------------------------
(* Resuming a thread from the store *)

\* the keys of the state that load_thread_state returns and a turn reads
load_thread_state(rows) ==
    [symptom_state |-> IF get_symptom_data(rows) # None
                       THEN model_validate(get_symptom_data(rows)[1])
                       ELSE SymptomState0,
     user_input |-> NoInput,
     ai_response |-> NoReply,
     current_action |-> "chat",
     chat_history |-> <<>>,
     extracted_symptoms |-> NoExtracted,
     missing_fields |-> <<>>,
     follow_up_count |-> 0,
     filename |-> NoFilename]

\* the caller replaces the state it holds by the loaded one
LoadThreadState ==
    /\ node = "idle"
    /\ LET state == load_thread_state(symptom_data)
       IN  /\ symptom_state' = state.symptom_state
           /\ user_input' = state.user_input
           /\ ai_response' = state.ai_response
           /\ current_action' = state.current_action
           /\ chat_history' = state.chat_history
           /\ extracted_symptoms' = state.extracted_symptoms
           /\ missing_fields' = state.missing_fields
           /\ follow_up_count' = state.follow_up_count
           /\ filename' = state.filename
    /\ call' = [op |-> "load_thread_state", arg |-> <<>>, ret |-> <<>>]
    /\ rotations' = 0
    /\ UNCHANGED <<node, steps, held, messages, symptom_data, store, other>>

\* What conversation_graph.invoke makes of a state: the ledger, the count and
\* the node chosen before update_history, for the utterance text when the
\* extractors return symptom_list and answers.
invoke(S, asked, count, text, symptom_list, answers) ==
    LET route == chat(text, NoFilename)
        extracted == DictOf(symptom_list)
        S1 == AddAll(S, extracted.keys)
        skip == S1.primary_symptoms = <<>> \/ Falsy(S1.current_symptom)
        name == S1.current_symptom[1]
        vals == IF skip THEN extracted.vals
                ELSE [extracted.vals @@ (name :> EmptyDict) EXCEPT
                         ![name] = FillDetails(@, asked, answers)]
        S2 == IF ~skip /\ vals[name] # EmptyDict
              THEN update_symptom_detail(S1, name, vals[name])[2]
              ELSE S1
        count2 == IF skip THEN count ELSE count + 1
        next == determine_next_action(S2, count2, asked)
    IN  IF route # "extract_symptoms"
        THEN [symptom_state |-> S, follow_up_count |-> count,
              current_action |-> route]
        ELSE [symptom_state |-> next.symptom_state,
              follow_up_count |-> next.follow_up_count,
              current_action |-> next.current_action]

NextResume ==
    \/ \E text \in Utterances : steps < MaxTurns /\ ProcessUserInput(text)
    \/ \E content \in Completions : Chat(content)
    \/ \E symptom_list \in MixedLists : ExtractSymptoms(symptom_list)
    \/ ProcessSymptoms
    \/ \E answers \in AnswerChoices(missing_fields) : ExtractDetails(answers)
    \/ UpdateSymptomDetails
    \/ DetermineNextAction
    \/ \E content \in Completions : GenerateQuestion(content)
    \/ \E content \in Completions : GenerateResponse(content)
    \/ GenerateSummary
    \/ \E content \in Completions :
          GenerateHealthcareRecommendation(content)
    \/ UpdateHistory
    \/ LoadThreadState

SpecResume == Init /\ [][NextResume]_vars

-----------------------------------------------------------------------------
(* The routing of chat over utterances and staged files *)

summary == <<"s","u","m","m","a","r","y">>

summarized == <<"s","u","m","m","a","r","i","z","e","d">>

Upload == <<"U","p","l","o","a","d">>

RoutingWords ==
    {Summarize, recap, summarized, summary, Upload, medication, medicine,
     prescription, sick, fever}

\* no word, one word or two words
RoutingUtterances ==
    {NoInput} \cup {<<w>> : w \in RoutingWords}
              \cup {<<v, w>> : v \in RoutingWords, w \in RoutingWords}

Filenames == {NoFilename, label_png}

ChatCall(text, staged) ==
    /\ node = "idle"
    /\ call' = [op |-> "chat", arg |-> <<text, staged>>,
                ret |-> <<chat(text, staged)>>]
    /\ UNCHANGED <<symptom_state, TurnVars>>

NextRouting ==
    \E text \in RoutingUtterances, staged \in Filenames :
        ChatCall(text, staged) /\ FreeStep

SpecRouting == InitLedger /\ [][NextRouting]_vars

-----------------------------------------------------------------------------
(* Every node of the graph: the turns of the interfaces, the medication
   upload of the Gradio interface included.  The executor runs the node an
   edge leads to, and the port calls return. *)

\* a completion may be empty
AnyCompletions == {NoReply, Reply}

\* the reply extract_medication_labels builds, whatever the label holds
medication_reply == << <<"l","a","b","e","l">> >>

\* process_medication_upload: the handler stages the validated file and runs
\* a turn on the message "Process this medication label: ..."
ProcessMedicationUpload ==
    /\ TurnBegins(<<medication>>)
    /\ filename' = label_png
    /\ held' = None
    /\ UNCHANGED <<store, other>>

\* valid: without a staged file, the name read from the command line is that
\* of a valid image
PrepareMedicationUpload(valid) ==
    /\ node = "prepare_medication_upload"
    /\ IF filename # NoFilename
       THEN /\ current_action' = "extract_medication_labels"
            /\ UNCHANGED <<filename, ai_response>>
       ELSE IF valid
       THEN /\ current_action' = "extract_medication_labels"
            /\ filename' = label_png
            /\ ai_response' = medication_reply
       ELSE /\ current_action' = "generate_response"
            /\ ai_response' = medication_reply
            /\ UNCHANGED filename
    /\ node' = current_action'
    /\ UNCHANGED <<symptom_state, user_input, extracted_symptoms,
                   missing_fields, follow_up_count, steps, rotations, call,
                   chat_history, held, messages, symptom_data, store, other>>

\* the medication workflow is run inside a try block: a reply in every case
ExtractMedicationLabels ==
    /\ node = "extract_medication_labels"
    /\ ai_response' = medication_reply
    /\ current_action' = "update_history"
    /\ node' = "update_history"
    /\ UNCHANGED <<symptom_state, user_input, extracted_symptoms,
                   missing_fields, follow_up_count, steps, rotations, call,
                   chat_history, held, messages, symptom_data, filename,
                   store, other>>

TurnStart ==
    \/ \E text \in Utterances : steps < MaxTurns /\ ProcessUserInput(text)
    \/ steps < MaxTurns /\ ProcessMedicationUpload

GraphStep ==
    \/ \E content \in AnyCompletions : Chat(content)
    \/ \E symptom_list \in MixedLists : ExtractSymptoms(symptom_list)
    \/ ProcessSymptoms
    \/ \E answers \in WholeAnswers(missing_fields) : ExtractDetails(answers)
    \/ UpdateSymptomDetails
    \/ DetermineNextAction
    \/ \E content \in AnyCompletions : GenerateQuestion(content)
    \/ \E content \in AnyCompletions : GenerateResponse(content)
    \/ GenerateSummary
    \/ \E content \in AnyCompletions :
          GenerateHealthcareRecommendation(content)
    \/ \E valid \in BOOLEAN : PrepareMedicationUpload(valid)
    \/ ExtractMedicationLabels
    \/ UpdateHistory

NextTurns == TurnStart \/ GraphStep

SpecTurns == Init /\ [][NextTurns]_vars /\ WF_vars(GraphStep)

\* after an upload the user types a message that mentions a medicine; the
\* state passed is the one the upload turn returned
MentionsMedicine == steps < MaxTurns /\ ProcessUserInput(<<medicine>>)

NextMedication == TurnStart \/ MentionsMedicine \/ GraphStep

SpecMedication == Init /\ [][NextMedication]_vars /\ WF_vars(GraphStep)

-----------------------------------------------------------------------------
(* The database all threads share.  A function reads the time, connects,
   runs its statements and commits; its writes are one transaction.
   save_symptom_data and save_medication_data look for the row of the thread
   (SELECT 1) before their transaction begins.  A timestamp is the isoformat
   text of the time read; the texts are ordered as the times are, and every
   reading of the clock is later than the readings before it. *)

\* most readings of the clock
MaxClock == 4

\* most calls between reading the clock and committing
MaxPending == 2

UserIds == {"u1", "u2"}

\* generate_thread_id: a new id on every call
ThreadIds == <<"t1", "t2", "t3">>

\* what the callers save: the rows of a turn, a ledger, a medication dict
SavedMessages == {Message("user", <<sick>>), Message("assistant", Reply)}

SavedSnapshots == {model_dump(SymptomState0)}

SavedMedications == {medication_reply}

\* SELECT ... WHERE thread_id = ?
Where(table, thread_id) ==
    SelectSeq(table, LAMBDA row : row.thread_id = thread_id)

\* UPDATE table SET ... with no WHERE clause
update_every_row(table, thread_id, assignments) ==
    [i \in 1..Len(table) |-> assignments @@ table[i]]

\* UPDATE table SET assignments WHERE thread_id = ?
update_where(table, thread_id, assignments) ==
    [i \in 1..Len(table) |->
        IF table[i].thread_id = thread_id THEN assignments @@ table[i]
        ELSE table[i]]

\* ORDER BY key, of rows no two of which have the same key
RECURSIVE OrderBy(_, _)
OrderBy(rows, key) ==
    IF rows = <<>> THEN <<>>
    ELSE LET least == CHOOSE i \in 1..Len(rows) :
                         \A j \in 1..Len(rows) : rows[i][key] <= rows[j][key]
         IN  <<rows[least]>>
             \o OrderBy(SubSeq(rows, 1, least - 1)
                        \o SubSeq(rows, least + 1, Len(rows)), key)

Reversed(rows) == [i \in 1..Len(rows) |-> rows[Len(rows) + 1 - i]]

\* SELECT role, content FROM conversation_messages WHERE thread_id = ?
\* ORDER BY timestamp
thread_history(db, thread_id) ==
    LET rows == OrderBy(Where(db.conversation_messages, thread_id), "timestamp")
    IN  [i \in 1..Len(rows) |-> Message(rows[i].role, rows[i].content)]

\* the rows get_active_threads selects, in ascending order
get_active_threads_ascending(db, user_id) ==
    OrderBy(SelectSeq(db.conversation_threads,
                      LAMBDA row : row.user_id = user_id /\ row.is_active),
            "last_updated")

\* SELECT ... FROM conversation_threads WHERE user_id = ? AND is_active = 1
\* ORDER BY last_updated DESC
get_active_threads(db, user_id) ==
    Reversed(OrderBy(SelectSeq(db.conversation_threads,
                               LAMBDA row : row.user_id = user_id /\ row.is_active),
                     "last_updated"))

\* a step of a function of the store: db is the store it leaves
StoreReturns(db, op, thread_id, ret) ==
    /\ node = "idle"
    /\ store' = db
    /\ call' = [op |-> op, arg |-> thread_id, ret |-> ret]
    /\ UNCHANGED <<symptom_state, user_input, current_action, node,
                   extracted_symptoms, missing_fields, follow_up_count, steps,
                   rotations, ai_response, chat_history, held, messages,
                   symptom_data, filename, other>>

StoreStep(db, op, thread_id) == StoreReturns(db, op, thread_id, <<>>)

CreateNewThread(user_id) ==
    /\ store.now < MaxClock
    /\ Len(store.conversation_threads) < Len(ThreadIds)
    /\ LET thread_id == ThreadIds[Len(store.conversation_threads) + 1]
       IN  StoreStep([store EXCEPT
                        !.now = @ + 1,
                        !.conversation_threads =
                            Append(@, [thread_id |-> thread_id,
                                       user_id |-> user_id,
                                       created_at |-> store.now,
                                       last_updated |-> store.now,
                                       is_active |-> TRUE])],
                     "create_new_thread", thread_id)

\* a save reads the time and connects; save_symptom_data and
\* save_medication_data then look for the row of the thread
SaveBegins(op, thread_id, value) ==
    /\ store.now < MaxClock
    /\ Cardinality(store.pending) < MaxPending
    /\ LET table == IF op = "save_symptom_data" THEN store.thread_symptoms
                    ELSE store.thread_medications
           found == op # "save_message" /\ Where(table, thread_id) # <<>>
       IN  StoreStep([store EXCEPT
                        !.now = @ + 1,
                        !.pending = @ \cup {[op |-> op, thread_id |-> thread_id,
                                             timestamp |-> store.now,
                                             found |-> found,
                                             value |-> value]}],
                     "connect", thread_id)

\* the snapshot table after the write of save_symptom_data or
\* save_medication_data; an INSERT of a second row for the thread raises
\* IntegrityError and the table is left as it was
upsert(table, save) ==
    IF save.found
    THEN update_where(table, save.thread_id,
                      [data |-> save.value, last_updated |-> save.timestamp])
    ELSE IF Where(table, save.thread_id) # <<>> THEN table
    ELSE Append(table, [thread_id |-> save.thread_id, data |-> save.value,
                        last_updated |-> save.timestamp])

\* the INSERT of save_symptom_data or save_medication_data meets a row of
\* the thread that was written after its SELECT: thread_id is the PRIMARY KEY
\* and sqlite3 raises IntegrityError
insert_raises(table, save) ==
    ~save.found /\ Where(table, save.thread_id) # <<>>

\* what the caller of a save gets
save_returns(db, save) ==
    IF \/ save.op = "save_symptom_data"
             /\ insert_raises(db.thread_symptoms, save)
       \/ save.op = "save_medication_data"
             /\ insert_raises(db.thread_medications, save)
    THEN <<"raised">>
    ELSE <<>>

\* the transaction of a save commits, or its INSERT raises
SaveCommits(save) ==
    /\ save \in store.pending
    /\ LET closed == [store EXCEPT !.pending = @ \ {save}]
       IN  StoreReturns(
             IF save.op = "save_message"
             THEN [closed EXCEPT
                     !.conversation_threads =
                         update_where(@, save.thread_id,
                                      [last_updated |-> save.timestamp]),
                     !.conversation_messages =
                         Append(@, [thread_id |-> save.thread_id,
                                    timestamp |-> save.timestamp,
                                    role |-> save.value.role,
                                    content |-> save.value.content])]
             ELSE IF save.op = "save_symptom_data"
             THEN [closed EXCEPT !.thread_symptoms = upsert(@, save)]
             ELSE [closed EXCEPT !.thread_medications = upsert(@, save)],
             save.op, save.thread_id, save_returns(store, save))

\* the thread_ids create_new_thread has returned
Created ==
    {store.conversation_threads[i].thread_id :
        i \in 1..Len(store.conversation_threads)}

\* a thread_id that a caller makes up and create_new_thread never returned
UncreatedThread == "test"

NextStore ==
    \/ \E user_id \in UserIds : CreateNewThread(user_id)
    \/ \E thread_id \in Created \cup {UncreatedThread}, m \in SavedMessages :
          SaveBegins("save_message", thread_id, m)
    \/ \E thread_id \in Created, data \in SavedSnapshots :
          SaveBegins("save_symptom_data", thread_id, data)
    \/ \E thread_id \in Created, data \in SavedMedications :
          SaveBegins("save_medication_data", thread_id, data)
    \/ \E save \in store.pending : SaveCommits(save)

SpecStore == Init /\ [][NextStore]_vars

-----------------------------------------------------------------------------
(* Two callers on one thread.  process_user_input takes no lock and reads no
   ledger from the store: a turn works on the state dict its caller passes.
   A second caller (another session that has selected the thread, or the
   other of the two submit listeners) can start a turn while one is
   running. *)

\* a second caller loads the thread and submits text while a turn is running:
\* process_user_input saves the user row and hands the loaded state to the graph
OtherTurnBegins(text) ==
    /\ node # "idle"
    /\ other = None
    /\ steps < MaxTurns
    /\ steps' = steps + 1
    /\ messages' = save_message(messages, "user", text)
    /\ other' = Some([state |-> load_thread_state(symptom_data),
                      user_input |-> text])
    /\ UNCHANGED <<symptom_state, user_input, current_action, node,
                   extracted_symptoms, missing_fields, follow_up_count,
                   rotations, call, ai_response, chat_history, held,
                   symptom_data, filename, store>>

\* the graph of the second caller returns and process_user_input saves the
\* reply and the ledger it returned
OtherTurnEnds(symptom_list, answers, content) ==
    /\ other # None
    /\ \E returned \in {invoke(other[1].state.symptom_state,
                              other[1].state.missing_fields,
                              other[1].state.follow_up_count,
                              other[1].user_input, symptom_list, answers)} :
           /\ messages' = IF content # NoReply
                          THEN save_message(messages, "assistant", content)
                          ELSE messages
           /\ symptom_data' =
                 IF returned.symptom_state.primary_symptoms # <<>>
                 THEN save_symptom_data(symptom_data,
                                        model_dump(returned.symptom_state))
                 ELSE symptom_data
    /\ other' = None
    /\ UNCHANGED <<symptom_state, user_input, current_action, node,
                   extracted_symptoms, missing_fields, follow_up_count, steps,
                   rotations, call, ai_response, chat_history, held,
                   filename, store>>

NextConcurrent ==
    \/ \E text \in Utterances : steps < MaxTurns /\ ProcessUserInput(text)
    \/ \E content \in Completions : Chat(content)
    \/ \E symptom_list \in MixedLists : ExtractSymptoms(symptom_list)
    \/ ProcessSymptoms
    \/ \E answers \in AnswerChoices(missing_fields) : ExtractDetails(answers)
    \/ UpdateSymptomDetails
    \/ DetermineNextAction
    \/ \E content \in Completions : GenerateQuestion(content)
    \/ \E content \in Completions : GenerateResponse(content)
    \/ GenerateSummary
    \/ \E content \in Completions :
          GenerateHealthcareRecommendation(content)
    \/ UpdateHistory
    \/ OtherTurnBegins(<<sick>>)
    \/ /\ other # None
       /\ \E symptom_list \in MixedLists, content \in Completions :
             \E answers \in AnswerChoices(other[1].state.missing_fields) :
                OtherTurnEnds(symptom_list, answers, content)

SpecConcurrent == Init /\ [][NextConcurrent]_vars

-----------------------------------------------------------------------------
(* The levels the severity port returns *)

\* severity_data["level"] after json.loads of the completion: no level, a
\* level of the scale, a level below it, a level above it
PortLevels == {None, Some(0), Some(5), Some(11)}

\* the severity branch of extract_details: a Severity is built from the
\* level whenever the level is not None
SeverityAnswers(asked) ==
    IF \E i \in 1..Len(asked) : asked[i] = "severity"
    THEN {IF level = None THEN EmptyDict
          ELSE ("severity" :> Some(Severity(level))) : level \in PortLevels}
    ELSE {EmptyDict}

NextSeverity ==
    \/ \E text \in Utterances : steps < MaxTurns /\ ProcessUserInput(text)
    \/ \E content \in Completions : Chat(content)
    \/ \E symptom_list \in SymptomLists : ExtractSymptoms(symptom_list)
    \/ ProcessSymptoms
    \/ \E answers \in WholeAnswers(missing_fields)
                         \cup SeverityAnswers(missing_fields) :
          ExtractDetails(answers)
    \/ UpdateSymptomDetails
    \/ DetermineNextAction
    \/ \E content \in Completions : GenerateQuestion(content)
    \/ \E content \in Completions : GenerateResponse(content)
    \/ GenerateSummary
    \/ \E content \in Completions :
          GenerateHealthcareRecommendation(content)
    \/ UpdateHistory

SpecSeverity == Init /\ [][NextSeverity]_vars

-----------------------------------------------------------------------------
(* A caller that passes no state *)

\* process_user_input down to the dict it hands the graph, for the state the
\* caller passes (None: no state) and the thread_id argument.  With no
\* thread_id the membership test `"thread_id" in state` is evaluated, and on
\* None it raises TypeError; with a thread_id the user row is saved first and
\* unpacking None into the new dict raises TypeError.
process_user_input_entry(state, thread_id) ==
    [saved |-> thread_id # None,
     raised |-> state = None]

\* the first call of main(): state = None.  The error is not caught by
\* main(), which ends there.
ProcessUserInputNoState(text, thread_id) ==
    /\ node = "idle"
    /\ steps = 0
    /\ LET entry == process_user_input_entry(None, thread_id)
       IN  /\ messages' = IF entry.saved
                          THEN save_message(messages, "user", text)
                          ELSE messages
           /\ call' = [op |-> "process_user_input", arg |-> text,
                       ret |-> IF entry.raised THEN <<"raised">>
                               ELSE <<"returned">>]
           /\ node' = IF entry.raised THEN "raised" ELSE "chat"
    /\ UNCHANGED <<symptom_state, user_input, current_action,
                   extracted_symptoms, missing_fields, follow_up_count,
                   steps, rotations, ai_response, chat_history, held,
                   symptom_data, filename, store, other>>

NextMain ==
    \/ \E thread_id \in {None, Some(ThreadIds[1])} :
          ProcessUserInputNoState(NoInput, thread_id)
    \/ NextResume

SpecMain == Init /\ [][NextMain]_vars

-----------------------------------------------------------------------------
(* Turns on a thread resumed from the store.  load_thread_state validates
   the snapshot thread_symptoms holds; model_validate checks no relation
   between current_symptom and primary_symptoms, so the ledger of the
   resumed thread is whatever the row holds: current_symptom may be unset,
   or a name that is not in primary_symptoms. *)

\* the snapshot of a thread whose first record has every tracked field set
\* and whose second record has none
DocumentedLedger ==
    update_symptom_detail(ConstructedLedger(<<fever, cough>>, Some(fever)),
                          fever, FullDetail)[2]

StoredLedgers ==
    {ConstructedLedger(names, cur) :
        names \in {<<fever>>, <<fever, cough>>},
        cur \in {None, Some(fever), Some(cough), Some(rash)}}
    \cup {[DocumentedLedger EXCEPT !.current_symptom = Some(cur)] :
              cur \in {fever, cough}}

InitLoaded ==
    /\ \E S \in StoredLedgers : symptom_data = <<model_dump(S)>>
    /\ LET state == load_thread_state(symptom_data)
       IN  /\ symptom_state = state.symptom_state
           /\ user_input = state.user_input
           /\ ai_response = state.ai_response
           /\ current_action = state.current_action
           /\ chat_history = state.chat_history
           /\ extracted_symptoms = state.extracted_symptoms
           /\ missing_fields = state.missing_fields
           /\ follow_up_count = state.follow_up_count
           /\ filename = state.filename
    /\ node = "idle"
    /\ steps = 0
    /\ rotations = 0
    /\ call = NoCall
    /\ held = None
    /\ messages = <<>>
    /\ store = EmptyStore
    /\ other = None

\* the nodes of a turn that reports symptoms
SymptomStep ==
    \/ \E content \in Completions : Chat(content)
    \/ \E symptom_list \in MixedLists : ExtractSymptoms(symptom_list)
    \/ ProcessSymptoms
    \/ \E answers \in WholeAnswers(missing_fields) : ExtractDetails(answers)
    \/ UpdateSymptomDetails
    \/ DetermineNextAction
    \/ \E content \in Completions : GenerateQuestion(content)
    \/ \E content \in Completions : GenerateResponse(content)
    \/ \E content \in Completions :
          GenerateHealthcareRecommendation(content)
    \/ UpdateHistory

NextLoaded ==
    \/ steps < MaxTurns /\ ProcessUserInputHolding(<<sick>>)
    \/ SymptomStep

SpecLoaded == InitLoaded /\ [][NextLoaded]_vars /\ WF_vars(SymptomStep)

\* the same thread when the user keeps reporting symptoms: the next turn
\* arrives as long as the steps of the model are not used up
NextArrivals ==
    \/ ProcessUserInputHolding(<<sick>>)
    \/ SymptomStep

SpecArrivals ==
    InitLoaded /\ [][NextArrivals]_vars /\ WF_vars(SymptomStep)
               /\ WF_vars(ProcessUserInputHolding(<<sick>>))

-----------------------------------------------------------------------------
(* Claims on the ledger calls *)

\* C1: after any sequence of add_symptom calls from the empty ledger no two
\* entries of primary_symptoms are equal when compared case-insensitively.
C1_UniqueNames ==
    \A i, j \in Positions : i # j => Lower(primary[i]) # Lower(primary[j])

C1_Witness ==
    /\ call.op = "add_symptom"
    /\ call.arg = Fever
    /\ primary = <<fever, cough>>

\* after the call: the records that carry the identity its name resolves to
C2_Identity ==
    LET after == symptom_state'.primary_symptoms
    IN  {i \in 1..Len(after) :
            find_similar_symptom(after, call'.arg) = <<TRUE, Some(after[i])>>}

C2_SecondAdd ==
    /\ Cardinality(C2_Identity) = 1
    /\ symptom_state' = symptom_state

\* C2 as stated: for all names n, add_symptom(n) followed by add_symptom(n)
\* yields exactly one record with n's identity and the second call changes
\* neither primary_symptoms nor symptom_details nor current_symptom.
C2_Original ==
    [][call'.op = "add_symptom" /\ call'.ret = <<2>>
          => C2_SecondAdd]_vars

\* C2 amended: the same for all non-empty names n (add_symptom("") is
\* skipped and yields no record).
C2_DedupIdempotent ==
    [][call'.op = "add_symptom" /\ call'.ret = <<2>> /\ call'.arg # EmptyName
          => C2_SecondAdd]_vars

C2_Witness ==
    /\ call = [op |-> "add_symptom", arg |-> cough, ret |-> <<2>>]
    /\ primary = <<Fever, cough>>

\* the query is "m X" or "X m" for the stored name X = primary[i]
C3_IsModifierForm(q, i) ==
    \E k \in 1..Len(modifiers) :
        q = Spaced(modifiers[k], primary[i]) \/ q = Spaced(primary[i], modifiers[k])

C3_AddChangesNothing(q) ==
    /\ add_symptom(symptom_state, q).primary_symptoms = primary
    /\ add_symptom(symptom_state, q).symptom_details = details

\* C3 as stated: for every stored X and modifier m, find_similar_symptom of
\* "m X" and of "X m" returns (True, X), X in its stored casing, and adding
\* either form leaves primary_symptoms and symptom_details unchanged.
C3_Original ==
    call.op = "find_similar_symptom" =>
        \A i \in Positions :
            C3_IsModifierForm(call.arg, i) =>
                /\ call.ret = <<TRUE, Some(primary[i])>>
                /\ C3_AddChangesNothing(call.arg)

\* the first stored name, up to position i, that occurs in the lowered and
\* stripped query
C3_FirstInside(q, i) ==
    LET inside == {j \in 1..i : Contains(Lower(primary[j]), Strip(Lower(q)))}
    IN  primary[CHOOSE j \in inside : \A h \in inside : j <= h]

\* C3 amended: for every stored X without leading or trailing whitespace
\* and every modifier m, find_similar_symptom of "m X" and of "X m" returns
\* (True, Y), Y being the first stored name that occurs case-insensitively
\* inside the query (X itself unless a name stored before X does), in its
\* stored casing; adding either form leaves primary_symptoms and
\* symptom_details unchanged.
C3_ModifierMerge ==
    call.op = "find_similar_symptom" =>
        \A i \in Positions :
            C3_IsModifierForm(call.arg, i) /\ Strip(primary[i]) = primary[i] =>
                /\ call.ret = <<TRUE, Some(C3_FirstInside(call.arg, i))>>
                /\ C3_AddChangesNothing(call.arg)

C3_Witness ==
    /\ call.op = "find_similar_symptom"
    /\ call.arg = Spaced(modifiers[2], Fever)
    /\ call.ret = <<TRUE, Some(Fever)>>
    /\ primary = <<cough, Fever>>

\* n is no exact match, substring, superstring or modifier variant of any
\* stored name, compared in lower case
C4_Unrelated(n) ==
    \A i \in Positions :
        LET e == Lower(primary[i])
        IN  /\ n # e
            /\ ~Contains(n, e)
            /\ ~Contains(e, n)
            /\ \A k \in 1..Len(modifiers) :
                  /\ n # Spaced(modifiers[k], e)
                  /\ n # Spaced(e, modifiers[k])
                  /\ e # Spaced(modifiers[k], n)
                  /\ e # Spaced(n, modifiers[k])

C4_AppendsOne(n) ==
    /\ find_similar_symptom(primary, n) = <<FALSE, None>>
    /\ symptom_state'.primary_symptoms = Append(primary, n)
    /\ DOMAIN symptom_state'.symptom_details = DOMAIN details \cup {n}
    /\ symptom_state'.symptom_details[n] = SymptomDetail(n)
    /\ \A x \in DOMAIN details : symptom_state'.symptom_details[x] = details[x]

\* C4 as stated: a non-empty name n that is no case-insensitive exact match,
\* substring, superstring or modifier variant of any stored name is not
\* found by find_similar_symptom and is appended by add_symptom as one new
\* record with an empty SymptomDetail, every existing record unchanged.
C4_Original ==
    [][call'.op = "add_symptom" /\ call'.arg # EmptyName
          /\ C4_Unrelated(Lower(call'.arg))
          => C4_AppendsOne(call'.arg)]_vars

\* C4 amended: the same with n compared after lower-casing and stripping
\* leading and trailing whitespace, as find_similar_symptom does.
C4_NonMerge ==
    [][call'.op = "add_symptom" /\ call'.arg # EmptyName
          /\ C4_Unrelated(Strip(Lower(call'.arg)))
          => C4_AppendsOne(call'.arg)]_vars

C4_Witness ==
    /\ call.op = "add_symptom"
    /\ call.arg = cough
    /\ primary = <<fever, cough>>
    /\ details[cough] = SymptomDetail(cough)

\* the record after primary[i], wrapping around
C8_NextOf(i) == primary[(i % Len(primary)) + 1]

\* C8: on a ledger with n >= 1 records and current_symptom at position i,
\* rotate_current_symptom moves current_symptom to position (i+1) mod n and
\* changes nothing else; n consecutive rotations bring current_symptom back
\* to where it started; an unset current_symptom becomes the first record.
C8_Rotation ==
    [][call'.op = "rotate_current_symptom" /\ Len(primary) >= 1 =>
          /\ symptom_state'.primary_symptoms = primary
          /\ symptom_state'.symptom_details = details
          /\ UNCHANGED TurnVars
          /\ IF current = None
             THEN symptom_state'.current_symptom = Some(primary[1])
             ELSE \E i \in Positions :
                     /\ primary[i] = current[1]
                     /\ symptom_state'.current_symptom = Some(C8_NextOf(i))
          /\ (call'.ret = <<Len(primary)>> /\ call'.arg # None
                 => symptom_state'.current_symptom = call'.arg)]_vars

C8_Witness ==
    /\ call = [op |-> "rotate_current_symptom", arg |-> Some(fever), ret |-> <<3>>]
    /\ primary = <<fever, cough, mild>>
    /\ current = Some(fever)

TrackedFields ==
    <<"severity", "start_date", "is_ongoing", "characteristics",
      "aggravating_factors", "relieving_factors", "frequency", "intensity",
      "triggers", "associated_symptoms">>

\* the record missing_fields was called for
C7_Detail == details[call.arg]

C7_UnsetOther(f) ==
    CASE f = "severity" ->
            C7_Detail.severity = None \/ C7_Detail.severity[1].level = None
      [] f = "start_date" ->
            C7_Detail.duration = None \/ C7_Detail.duration[1].start_date = None
      [] f \in {"frequency", "intensity"} ->
            C7_Detail[f] = None \/ C7_Detail[f][1] = ""
      [] OTHER -> C7_Detail[f] = None \/ C7_Detail[f][1] = <<>>

\* is_ongoing is unset: no duration, or a duration without is_ongoing
C7_Unset(f) ==
    IF f = "is_ongoing"
    THEN C7_Detail.duration = None \/ C7_Detail.duration[1].is_ongoing = None
    ELSE C7_UnsetOther(f)

\* is_ongoing is reported: a duration is recorded and its is_ongoing is unset
C7_Reported(f) ==
    IF f = "is_ongoing"
    THEN C7_Detail.duration # None /\ C7_Detail.duration[1].is_ongoing = None
    ELSE C7_UnsetOther(f)

C7_OnlySeveritySet == \A i \in 2..Len(TrackedFields) : C7_Unset(TrackedFields[i])

-----------------------------------------------------------------------------
(* Claims on the conversation turns *)

\* C5: in every reachable state, after any sequence of add_symptom,
\* rotate_current_symptom, update_symptom_detail calls and turns,
\* current_symptom is None or an element of primary_symptoms.
C5_CurrentInLedger ==
    current = None \/ InList(current[1], primary)

\* a turn rotated, a direct rotation followed it, and a symptom is current
C5_Witness ==
    /\ node = "idle"
    /\ rotations > 0
    /\ call.op = "rotate_current_symptom"
    /\ current # None
    /\ Len(primary) > 1

IsPrefix(s, t) == Len(s) <= Len(t) /\ SubSeq(t, 1, Len(s)) = s

\* C6: the ledger is append-only in first-mention order: every step of a
\* turn leaves primary_symptoms with its former value as a prefix, so
\* primary_symptoms at the end of a turn has primary_symptoms at the start
\* of the turn as a prefix, and nothing is removed, renamed or reordered.
C6_AppendOnly ==
    [][IsPrefix(primary, primary')]_vars

\* a later turn has appended to the ledger an earlier turn began
C6_Witness ==
    /\ node = "idle"
    /\ steps > 1
    /\ Len(primary) > 2

\* C9: when determine_next_action has rotated the current symptom during a
\* turn, follow_up_count is 0 at the end of that turn.
C9_CountReset ==
    (node = "idle" /\ rotations > 0) => follow_up_count = 0

\* a turn that rotated twice: once because follow_up_count reached the limit
\* and once because the symptom rotated to had no missing fields
C9_Witness ==
    /\ node = "idle"
    /\ rotations > 1
    /\ follow_up_count = 0

C10_EveryRecordDocumented ==
    \A i \in Positions : Len(MissingOf(details[primary[i]])) <= 6

C11_Decided ==
    node \in {"generate_question", "generate_response",
              "generate_healthcare_recommendation", "update_history", "idle"}

\* the first turn of a fresh thread extracted exactly one name
C11_OneName ==
    /\ steps = 1
    /\ user_input # NoInput
    /\ Len(extracted_symptoms.keys) = 1

C11_AsksFirstFields ==
    /\ primary = extracted_symptoms.keys
    /\ DOMAIN details = {primary[1]}
    /\ current = Some(primary[1])
    /\ node \in {"generate_question", "update_history", "idle"}
    /\ missing_fields = <<"severity", "start_date">>

\* C11 as stated: on a fresh thread, a non-empty utterance from which the
\* extractor returns exactly one name s ends the turn with exactly one
\* record s, current_symptom = s, determine_next_action going to
\* generate_question, and the asked fields [severity, start_date].
C11_Original ==
    C11_Decided /\ C11_OneName => C11_AsksFirstFields

\* C11 amended: the same when the one name returned is not the empty name
\* (an empty name is skipped by add_symptom: the turn ends with no record
\* and determine_next_action goes to generate_response).
C11_FirstSymptomTurn ==
    C11_Decided /\ C11_OneName /\ extracted_symptoms.keys[1] # EmptyName
        => C11_AsksFirstFields

C11_Witness ==
    /\ node = "idle"
    /\ C11_OneName
    /\ primary = <<Fever>>
    /\ missing_fields = <<"severity", "start_date">>

-----------------------------------------------------------------------------
(* Claims on port failures *)

\* the step in which process_user_input raises to its caller
C12_TurnRaises ==
    /\ call'.op = "process_user_input"
    /\ call'.ret = <<"raised">>
    /\ held # None

\* C12: if an extraction or generation port call raises at any point of a
\* turn, the ledger is unchanged by that turn: the persisted snapshot and
\* the SymptomState the caller holds for the next turn equal their pre-turn
\* values.
C12_Original ==
    [][C12_TurnRaises =>
          /\ symptom_state' = held[1].symptom_state
          /\ symptom_data' = symptom_data]_vars

\* C13: if a port call raises during a turn, process_user_input does not
\* raise to its caller: the turn reaches update_history with a fallback
\* reply, so no call of process_user_input ends raising.
C13_Original ==
    ~(call.op = "process_user_input" /\ call.ret = <<"raised">>)

-----------------------------------------------------------------------------
(* Claims on resuming a thread *)

\* a turn has been completed and the caller holds the state it returned
C14_AfterTurn == node = "idle" /\ steps > 0 /\ call = NoCall

\* C14: for any thread state reached after a completed turn, reloading the
\* thread from the store and then processing an utterance yields the same
\* ledger, the same follow_up_count and the same next action as processing
\* it on the in-memory state.
C14_Original ==
    C14_AfterTurn =>
        \A text \in Utterances, symptom_list \in MixedLists,
           answers \in FirstAnswers(missing_fields) :
            LET state == load_thread_state(symptom_data)
            IN  invoke(state.symptom_state, state.missing_fields,
                       state.follow_up_count, text, symptom_list, answers)
                = invoke(symptom_state, missing_fields, follow_up_count,
                         text, symptom_list, answers)

\* saving the ledger of this state and reading it back
C15_Saved == save_symptom_data(symptom_data, model_dump(symptom_state))

-----------------------------------------------------------------------------
(* Claims on the routing *)

C16_States ==
    {"generate_response", "generate_summary", "prepare_medication_upload",
     "extract_symptoms"}

\* the text holds "summarize" or "recap" somewhere, in any case
C16_HoldsSummaryKeyword(text) ==
    \E i \in 1..Len(text) :
        \E keyword \in {summarize, recap} : Contains(keyword, Lower(text[i]))

\* the first rule that matches decides, summary being the keyword test given
C16_FirstMatch(text, staged, route, summary_rule) ==
    /\ route \in C16_States
    /\ route = IF text = NoInput THEN "generate_response"
               ELSE IF summary_rule THEN "generate_summary"
               ELSE IF medication_requested(text) /\ staged # NoFilename
               THEN "prepare_medication_upload"
               ELSE "extract_symptoms"

\* C16 as stated: routing is a total, deterministic, first-match-wins
\* function of the utterance and the staged filename: empty goes to the
\* greeting; otherwise an utterance containing a summary keyword goes to
\* generate_summary even with a medication keyword and a staged file;
\* otherwise the medication rule applies; otherwise extract_symptoms.
C16_Original ==
    call.op = "chat" =>
        C16_FirstMatch(call.arg[1], call.arg[2], call.ret[1],
                       C16_HoldsSummaryKeyword(call.arg[1]))

\* C16 amended: the same, a summary keyword being "summarize" or "recap" as
\* a whole word of the utterance, in any case.
C16_Routing ==
    call.op = "chat" =>
        C16_FirstMatch(call.arg[1], call.arg[2], call.ret[1],
                       \E i \in 1..Len(call.arg[1]) :
                           Lower(call.arg[1][i]) \in {summarize, recap})

\* a summary keyword, a medication keyword and a staged file
C16_Witness ==
    call = [op |-> "chat", arg |-> << <<recap, Upload>>, label_png>>,
            ret |-> <<"generate_summary">>]

\* C17: a non-empty utterance without a summary keyword is routed to
\* prepare_medication_upload if it contains an upload or medication keyword
\* or a filename is staged; either condition alone suffices.
C17_Original ==
    call.op = "chat" /\ call.arg[1] # NoInput
                     /\ ~C16_HoldsSummaryKeyword(call.arg[1])
                     /\ (medication_requested(call.arg[1])
                            \/ call.arg[2] # NoFilename)
        => call.ret = <<"prepare_medication_upload">>

\* C18: the utterance "summary" is routed to generate_summary.
C18_Original ==
    call.op = "chat" /\ call.arg[1] = <<summary>>
        => call.ret = <<"generate_summary">>

-----------------------------------------------------------------------------
(* Claims on the turn as a whole *)

\* the edges of the graph lead from a node to one of a higher rank
C19_Rank(n) ==
    CASE n = "chat" -> 1
      [] n \in {"extract_symptoms", "prepare_medication_upload"} -> 2
      [] n \in {"process_symptoms", "extract_medication_labels"} -> 3
      [] n = "extract_details" -> 4
      [] n = "update_symptom_details" -> 5
      [] n = "determine_next_action" -> 6
      [] n \in {"generate_question", "generate_response", "generate_summary",
                "generate_healthcare_recommendation"} -> 7
      [] n = "update_history" -> 8
      [] n = "idle" -> 9

C19_Assistants(history) ==
    Cardinality({i \in 1..Len(history) : history[i].role = "assistant"})

\* C19: every turn terminates: the graph entered at chat reaches
\* update_history, no node is visited twice on the way, and the turn appends
\* exactly one assistant message, which update_history does.
C19_TurnTerminates ==
    /\ (node = "chat") ~> (node = "update_history")
    /\ [][node # "idle" => C19_Rank(node') > C19_Rank(node)]_vars
    /\ [][C19_Assistants(chat_history') =
             C19_Assistants(chat_history)
                + (IF node = "update_history" THEN 1 ELSE 0)]_vars

\* turns over both branches of the graph have ended, a reply appended by each
C19_Witness ==
    /\ node = "idle"
    /\ steps > 1
    /\ primary # <<>>
    /\ ai_response = medication_reply
    /\ C19_Assistants(chat_history) = steps

\* the entries of the turn that is ending
C20_User == Message("user", user_input)

C20_Assistant == Message("assistant", ai_response)

\* the step of update_history extends chat_history by the two entries and
\* the rows of the thread, which end with the user row, by the assistant row
C20_Extends ==
    /\ chat_history' = chat_history \o <<C20_User, C20_Assistant>>
    /\ messages # <<>>
    /\ messages[Len(messages)] = C20_User
    /\ get_thread_history(messages')
          = get_thread_history(messages) \o <<C20_Assistant>>

\* the transcript changes nowhere else in a turn but at its start, where the
\* user row is saved
C20_NowhereElse ==
    /\ (node \notin {"idle", "update_history"}
           => chat_history' = chat_history /\ messages' = messages)
    /\ (node = "idle" /\ node' = "chat"
           => /\ chat_history' = chat_history
              /\ messages' = Append(messages, Message("user", user_input')))

\* C20 as stated: for every completed turn with a non-empty utterance u and
\* reply r, chat_history and the rows get_thread_history returns are
\* extended by exactly (user, u) followed by (assistant, r), after all
\* entries of earlier turns.
C20_Original ==
    [][/\ C20_NowhereElse
       /\ (node = "update_history" /\ user_input # NoInput => C20_Extends)]_vars

\* C20 amended: the same for every non-empty reply r; with an empty reply
\* chat_history is extended by both entries and the rows by (user, u) alone.
C20_Transcript ==
    [][/\ C20_NowhereElse
       /\ (node = "update_history" /\ user_input # NoInput
              => /\ chat_history' = chat_history \o <<C20_User, C20_Assistant>>
                 /\ messages # <<>>
                 /\ messages[Len(messages)] = C20_User
                 /\ get_thread_history(messages') =
                       IF ai_response # NoReply
                       THEN get_thread_history(messages) \o <<C20_Assistant>>
                       ELSE get_thread_history(messages))]_vars

\* two turns with utterances and replies are in the transcript
C20_Witness ==
    /\ node = "idle"
    /\ Len(chat_history) = 4
    /\ get_thread_history(messages) = chat_history
    /\ chat_history[3] = Message("user", <<sick>>)
    /\ chat_history[4] = Message("assistant", Reply)

-----------------------------------------------------------------------------
(* Claims on the store *)

\* what the store holds of one thread: its row of conversation_threads (with
\* last_updated), its messages, its ledger snapshot, its medication snapshot
C21_Held(db, thread_id) ==
    <<Where(db.conversation_threads, thread_id),
      Where(db.conversation_messages, thread_id),
      Where(db.thread_symptoms, thread_id),
      Where(db.thread_medications, thread_id)>>

\* the history is the earlier one with the message put in at one place
C21_Gains(history, earlier, m) ==
    \E k \in 1..Len(history) :
        /\ history[k] = m
        /\ SubSeq(history, 1, k - 1) \o SubSeq(history, k + 1, Len(history))
           = earlier

\* C21: under any interleaving of the steps of save_message,
\* save_symptom_data and save_medication_data, a step of a save for thread
\* A leaves the message log, the ledger snapshot, the medication snapshot
\* and last_updated of every other thread B as they were, and
\* get_thread_history(B) holds exactly the messages saved for B: it gains
\* the message of a save_message for B that commits and changes at no other
\* step.
C21_Isolation ==
    [][\A i \in DOMAIN ThreadIds :
          LET B == ThreadIds[i]
              committed == store.pending \ store'.pending
          IN  /\ call'.op # "create_new_thread" /\ call'.arg # B
                 => C21_Held(store', B) = C21_Held(store, B)
              /\ IF call'.op = "save_message" /\ call'.arg = B
                 THEN \A save \in committed :
                         C21_Gains(thread_history(store', B),
                                   thread_history(store, B), save.value)
                 ELSE thread_history(store', B) = thread_history(store, B)]_vars

\* a save_message for t1 has committed between the two steps of a save for
\* t2, whose row of conversation_threads is as create_new_thread left it
C21_Witness ==
    /\ call.op = "save_message" /\ call.arg = "t1"
    /\ thread_history(store, "t1") # <<>>
    /\ \E save \in store.pending : save.thread_id = "t2"
    /\ \E row \in {store.conversation_threads[2]} :
          row.thread_id = "t2" /\ row.last_updated = row.created_at

\* the rows of conversation_threads of the active threads of a user
C22_ThreadsOf(user_id) ==
    {row \in {store.conversation_threads[i] :
                 i \in 1..Len(store.conversation_threads)} :
        row.user_id = user_id /\ row.is_active}

\* exactly the active threads of the user, each once, by last_updated
\* descending
C22_ExactDescending(user_id) ==
    LET listed == get_active_threads(store, user_id)
    IN  /\ {listed[i] : i \in 1..Len(listed)} = C22_ThreadsOf(user_id)
        /\ Len(listed) = Cardinality(C22_ThreadsOf(user_id))
        /\ \A i \in 1..Len(listed) - 1 :
              listed[i].last_updated > listed[i + 1].last_updated

\* the messages saved to the threads of the user, in the order they were saved
C22_SavedFor(user_id) ==
    SelectSeq(store.conversation_messages,
              LAMBDA m : \E row \in C22_ThreadsOf(user_id) :
                            row.thread_id = m.thread_id)

\* C22 as stated: get_active_threads(u) returns exactly the active threads
\* whose user_id is u, ordered by last_updated descending, so the thread
\* with the most recently saved message comes first.
C22_Original ==
    \A user_id \in UserIds :
        /\ C22_ExactDescending(user_id)
        /\ LET saved == C22_SavedFor(user_id)
           IN  saved # <<>> =>
                  get_active_threads(store, user_id)[1].thread_id
                  = saved[Len(saved)].thread_id

\* C22: get_active_threads(u) returns exactly the active threads whose
\* user_id is u and never a thread created for another user, ordered by
\* last_updated descending; last_updated of a thread is the time read by the
\* save_message that committed last for it, or the time of its creation if
\* no message was saved to it.
C22_ActiveThreads ==
    \A user_id \in UserIds :
        /\ C22_ExactDescending(user_id)
        /\ \A row \in C22_ThreadsOf(user_id) :
              LET saved == Where(store.conversation_messages, row.thread_id)
              IN  row.last_updated = IF saved = <<>> THEN row.created_at
                                     ELSE saved[Len(saved)].timestamp

\* u1 has two threads and u2 one; a message saved to the older thread of u1
\* has put it first
C22_Witness ==
    /\ Len(get_active_threads(store, "u1")) = 2
    /\ Len(get_active_threads(store, "u2")) = 1
    /\ get_active_threads(store, "u1")[1].thread_id = "t1"
    /\ thread_history(store, "t1") # <<>>

-----------------------------------------------------------------------------
(* Claims on concurrent and interrupted turns *)

\* the names of the ledger snapshot the store holds for the thread
C23_Persisted ==
    load_thread_state(symptom_data).symptom_state.primary_symptoms

\* C23: turns for one thread are serialized: when two turns for the thread
\* are submitted concurrently, the persisted ledger snapshot reflects both
\* turns (a save never drops a symptom an earlier save persisted), and the
\* persisted transcript never interleaves the messages of the two turns (an
\* assistant row is saved right after the user row of its turn).
C23_Original ==
    /\ [][\A i \in 1..Len(C23_Persisted) :
             InList(C23_Persisted[i], C23_Persisted')]_vars
    /\ [][Len(messages') > Len(messages)
            /\ messages'[Len(messages')].role = "assistant"
          => messages[Len(messages)].role = "user"]_vars

\* C24: no partial commit: if a turn is cancelled, crashes or the store fails
\* inside process_user_input, the persisted state of the thread is entirely
\* the state before the turn or entirely the state after it.  Between turns
\* the message log is then made of whole turns, a user row followed by the
\* assistant row of its turn, and never ends with the user row of a turn
\* whose reply was not saved.
C24_Original ==
    node = "idle" =>
        /\ Len(messages) % 2 = 0
        /\ \A i \in 1..Len(messages) :
              messages[i].role = IF i % 2 = 1 THEN "user" ELSE "assistant"

-----------------------------------------------------------------------------
(* Claims on the details of the records *)

\* the tracked field is set in the record of the symptom
C25_Set(S, symptom_name, f) ==
    LET detail == S.symptom_details[symptom_name]
    IN  CASE f = "severity" ->
                detail.severity # None /\ detail.severity[1].level # None
          [] f = "start_date" ->
                detail.duration # None /\ detail.duration[1].start_date # None
          [] f = "is_ongoing" ->
                detail.duration # None /\ detail.duration[1].is_ongoing # None
          [] f \in {"frequency", "intensity"} -> ~FalsyStr(detail[f])
          [] OTHER -> ~Falsy(detail[f])

\* C25: for every record and every tracked field (duration.start_date and
\* duration.is_ongoing included), once the field is set it remains set after
\* every later step of every turn, whatever the extraction port returns.
C25_Original ==
    [][\A symptom_name \in DOMAIN symptom_state.symptom_details :
          \A i \in DOMAIN TrackedFields :
             C25_Set(symptom_state, symptom_name, TrackedFields[i])
             => /\ symptom_name \in DOMAIN symptom_state'.symptom_details
                /\ C25_Set(symptom_state', symptom_name, TrackedFields[i])]_vars

-----------------------------------------------------------------------------
(* Claims on resumed and unknown threads *)

\* a non-empty ledger whose current_symptom is not in primary_symptoms
C26_Dangling(S) ==
    /\ S.primary_symptoms # <<>>
    /\ S.current_symptom # None
    /\ ~InList(S.current_symptom[1], S.primary_symptoms)

\* C26: whenever a turn starts with a non-empty ledger whose current_symptom
\* is not in primary_symptoms, for any follow_up_count, the turn completes
\* without surfacing an error (determine_next_action raises nothing) and
\* ends with current_symptom re-selected as the first record of
\* primary_symptoms.  Stated for the turns that reach determine_next_action,
\* the only node that re-selects.
C26_Original ==
    /\ [](node = "determine_next_action"
          => ~determine_next_action(symptom_state, follow_up_count,
                                    missing_fields).raised)
    /\ [][/\ node = "update_history" /\ node' = "idle" /\ held # None
          /\ chat(user_input, filename) = "extract_symptoms"
          /\ C26_Dangling(held[1].symptom_state)
          => current' = Some(primary'[1])]_vars

\* C27 (as stated): a turn for a thread of which nothing is stored goes on
\* from a fresh state and returns a reply: a call of process_user_input never
\* raises to its caller, the state is passed or not, and a thread loaded with
\* no snapshot in the store has an empty ledger, an empty transcript and
\* follow_up_count 0.
C27_Original ==
    /\ call.op = "process_user_input" => call.ret # <<"raised">>
    /\ (call.op = "load_thread_state" /\ get_symptom_data(symptom_data) = None)
          => /\ symptom_state = SymptomState0
             /\ chat_history = <<>>
             /\ follow_up_count = 0

\* C28 (as stated): every severity stored in a record has a level in 1..10
\* or no level, whatever level the severity port returned.
C28_Original ==
    \A i \in 1..Len(primary) :
        LET severity == details[primary[i]].severity
        IN  severity # None /\ severity[1].level # None
                => severity[1].level[1] \in 1..10

\* the thread was resumed from a snapshot whose current_symptom is unset, and
\* that snapshot is still the stored one
C29_LoadedUnset ==
    /\ get_symptom_data(symptom_data) # None
    /\ model_validate(get_symptom_data(symptom_data)[1]).current_symptom = None

\* C29: with a non-empty ledger current_symptom becomes non-None.  A merge
\* that adds a record leaves a current symptom set; the decision taken on a
\* non-empty ledger leaves one set, a rotation included; a turn that has
\* merged into a non-empty ledger gets to a state where one is set; and no
\* step of a turn unsets it.
C29_EventuallySelected ==
    /\ [][node = "process_symptoms" /\ primary' # primary
            => current' # None]_vars
    /\ [][node = "determine_next_action" /\ primary # <<>>
            => current' # None]_vars
    /\ [][rotations' > rotations => current' # None]_vars
    /\ [][current # None => current' # None]_vars
    /\ (node = "extract_details" /\ primary # <<>>) ~> (current # None)

\* a thread resumed with current_symptom unset took a turn in which nothing
\* was extracted, and the decision selected the first record
C29_Witness ==
    /\ C29_LoadedUnset
    /\ node = "generate_question"
    /\ extracted_symptoms.keys = <<>>
    /\ current = Some(primary[1])

\* C30 (as stated): whenever determine_next_action goes to generate_question,
\* the asked fields the state holds are exactly the first
\* MAX_MISSING_FIELDS_TO_ASK missing fields of the current symptom, on every
\* branch, and never more than that many.
C30_Original ==
    node = "generate_question" /\ current # None
                               /\ InList(current[1], primary)
        => /\ missing_fields =
                 top_missing_fields(missing_fields_of(symptom_state, current[1])[2])
           /\ Len(missing_fields) <= MAX_MISSING_FIELDS_TO_ASK

-----------------------------------------------------------------------------
(* Claims on what a turn takes over from the turn before *)

\* the turn before this one was not a symptom turn: the state the caller
\* passed still holds the utterance of that turn, and chat routed it to the
\* greeting or to the summary (on the first turn it holds no utterance)
C31_AfterOtherTurn ==
    /\ held # None
    /\ chat(held[1].user_input, filename) # "extract_symptoms"

\* C31 (as stated): extract_details calls the extraction port only for the
\* fields the question of the turn just before asked about; after a turn
\* that did not end in a question (first turn, greeting, summary) it extracts
\* no field and update_symptom_details commits no detail.
C31_Original ==
    /\ [](node = "extract_details" /\ C31_AfterOtherTurn
             /\ primary # <<>> /\ ~Falsy(current)
          => missing_fields = <<>>)
    /\ [][node = "update_symptom_details" /\ C31_AfterOtherTurn
          => symptom_state' = symptom_state]_vars

\* update_symptom_details adds one to follow_up_count when a current symptom
\* is set
C32_CountsTurn ==
    [][node = "update_symptom_details" /\ ~Falsy(current)
          => follow_up_count' = follow_up_count + 1]_vars

\* a turn on a ledger of two records or more, not all documented, ends with
\* follow_up_count below MAX_FOLLOW_UP_QUESTIONS
C32_BelowLimit ==
    [](node = "idle" /\ Len(primary) >= 2
          /\ ~all_symptoms_documented(symptom_state)
       => follow_up_count < MAX_FOLLOW_UP_QUESTIONS)

\* the decision taken at the limit on such a ledger goes to a question
C32_AsksAtLimit ==
    /\ node = "determine_next_action"
    /\ follow_up_count >= MAX_FOLLOW_UP_QUESTIONS
    /\ Len(primary) >= 2
    /\ ~all_symptoms_documented(symptom_state)
    /\ node' = "generate_question"

\* a record other than the current one has missing fields
C32_OtherMissing ==
    \E i \in 1..Len(primary) :
        /\ current # Some(primary[i])
        /\ missing_fields_of(symptom_state, primary[i])[2] # <<>>

\* C32 (as stated): follow_up_count grows by one per symptom turn with a
\* current symptom and the decision rotates at MAX_FOLLOW_UP_QUESTIONS, so
\* with two records or more and tracking not complete the question asked at
\* the limit is about another record than the one asked about so far (no
\* record is asked about in more than 3 turns in a row), and the count is
\* below the limit at the end of the turn.
C32_Original ==
    /\ C32_CountsTurn
    /\ C32_BelowLimit
    /\ [][C32_AsksAtLimit => current' # current]_vars

\* C32 amended: the same, the question asked at the limit being about
\* another record when some other record has missing fields; when every
\* other record is fully documented the two rotations come back to the
\* current record and it is asked about again.
C32_FollowUpLimit ==
    /\ C32_CountsTurn
    /\ C32_BelowLimit
    /\ [][C32_AsksAtLimit /\ C32_OtherMissing => current' # current]_vars

\* the third turn in a row on one record reached the limit, and the question
\* is about the next record
C32_Witness ==
    /\ node = "generate_question"
    /\ steps = MAX_FOLLOW_UP_QUESTIONS
    /\ rotations = 1
    /\ follow_up_count = 0
    /\ primary = <<fever, cough>>
    /\ current = Some(cough)
    /\ missing_fields_of(symptom_state, fever)[2] # <<>>

\* the utterance of the running turn is empty or asks for the summary
C33_GreetOrSummarize ==
    /\ held # None
    /\ node # "idle"
    /\ user_input = NoInput \/ summary_requested(user_input)

\* C33: a turn on the empty utterance or on a summary request leaves the
\* ledger, follow_up_count and the asked fields as the caller passed them,
\* at every node of the turn and in the state returned.
C33_LedgerUntouched ==
    /\ [](C33_GreetOrSummarize
          => /\ symptom_state = held[1].symptom_state
             /\ follow_up_count = held[1].follow_up_count
             /\ missing_fields = held[1].missing_fields)
    /\ [][C33_GreetOrSummarize /\ node' = "idle"
          => UNCHANGED <<symptom_state, follow_up_count, missing_fields>>]_vars

\* a summary turn on a thread with a record and a question pending has built
\* its reply
C33_Witness ==
    /\ C33_GreetOrSummarize
    /\ node = "update_history"
    /\ user_input = <<Summarize>>
    /\ ai_response = session_summary
    /\ primary # <<>>
    /\ follow_up_count > 0
    /\ missing_fields # <<>>

-----------------------------------------------------------------------------
(* Claims on the shared store, continued *)

\* C34 (as stated): save_symptom_data is an atomic upsert per thread: however
\* two calls on one thread interleave, also when the thread has no snapshot
\* row yet, no call raises, and once a call has returned the thread has
\* exactly one snapshot row.
C34_Original ==
    /\ call.op = "save_symptom_data" => call.ret # <<"raised">>
    /\ call.op = "save_symptom_data"
          => Len(Where(store.thread_symptoms, call.arg)) = 1
    /\ \A i \in 1..Len(ThreadIds) :
          Len(Where(store.thread_symptoms, ThreadIds[i])) <= 1

\* C35 (as stated): once save_message has returned for a thread, the thread
\* has a row in conversation_threads; every stored message belongs to a
\* thread that has one, and the last_updated of that row is not earlier than
\* the timestamp of the message.
C35_Original ==
    /\ call.op = "save_message"
          => Where(store.conversation_threads, call.arg) # <<>>
    /\ \A i \in 1..Len(store.conversation_messages) :
          LET message == store.conversation_messages[i]
              rows == Where(store.conversation_threads, message.thread_id)
          IN  /\ rows # <<>>
              /\ \A j \in 1..Len(rows) :
                    rows[j].last_updated >= message.timestamp

-----------------------------------------------------------------------------
(* Claims on resuming a thread, continued *)

\* C36 (as stated): after load_thread_state on a thread with saved messages,
\* the chat_history of the state the next turn works on is the message log
\* of the thread.
C36_Original ==
    call.op = "load_thread_state" /\ get_thread_history(messages) # <<>>
        => chat_history = get_thread_history(messages)

-----------------------------------------------------------------------------
(* Claims on the rotation over turns *)

\* the thread is resumed, no turn taken yet, with a current symptom that is
\* unset or one of the records, and name is a record with missing fields
C37_Waiting(name) ==
    /\ node = "idle"
    /\ steps = 0
    /\ current = None \/ InList(current[1], primary)
    /\ InList(name, primary)
    /\ missing_fields_of(symptom_state, name)[2] # <<>>

\* a turn asks about name
C37_Asked(name) ==
    /\ node = "generate_question"
    /\ current = Some(name)
    /\ missing_fields # <<>>

-----------------------------------------------------------------------------
(* Claims on the snapshot a completed turn leaves *)

\* a turn has run to its end on a ledger that holds a record, and the caller
\* has the state process_user_input returned
C38_Completed ==
    /\ node = "idle"
    /\ steps > 0
    /\ call = NoCall
    /\ primary # <<>>

\* C38: after every completed turn on a non-empty ledger, the snapshot
\* get_symptom_data reads is the model_dump of the symptom_state returned to
\* the caller: it neither lags behind that ledger nor runs ahead of it.
C38_SnapshotIsLedger ==
    C38_Completed
        => get_symptom_data(symptom_data) = Some(model_dump(symptom_state))

\* the second completed turn added a record and a detail to the ledger the
\* first one had saved
C38_Witness ==
    /\ C38_Completed
    /\ steps = 2
    /\ Len(primary) = 2
    /\ get_symptom_data(symptom_data) # None
    /\ get_symptom_data(symptom_data)[1].primary_symptoms = primary
    /\ \E n \in DOMAIN symptom_state.symptom_details :
          symptom_state.symptom_details[n] # SymptomDetail(n)

-----------------------------------------------------------------------------
(* Claims on containment among the stored names *)

\* C39 as stated: no stored name occurs, compared in lower case, inside
\* another stored name.
C39_Original ==
    \A i, j \in Positions :
        i # j => ~Contains(Lower(primary[i]), Lower(primary[j]))

\* C39 amended: a name stored later, lower-cased and stripped of leading and
\* trailing whitespace as find_similar_symptom compares it, neither occurs
\* inside a name stored before it nor has one occurring inside it; hence no
\* later name occurs inside an earlier one, and an earlier name occurs inside
\* a later one only within the whitespace at the ends of the later one.
C39_NoContainment ==
    \A i, j \in Positions :
        i < j =>
            LET existing_lower == Lower(primary[i])
                normalized_name == Strip(Lower(primary[j]))
            IN  /\ ~Contains(normalized_name, existing_lower)
                /\ ~Contains(existing_lower, normalized_name)
                /\ ~Contains(Lower(primary[j]), existing_lower)

\* "mild fever" was reported after "fever" and "cough" and no record was
\* added for it
C39_Witness ==
    /\ call.op = "add_symptom"
    /\ call.arg = mild_fever
    /\ call.ret = <<1>>
    /\ primary = <<fever, cough>>

-----------------------------------------------------------------------------
(* Claims on the staged medication file *)

\* C40 as stated: the staged filename is pending for one turn only; once the
\* upload turn has reached the end no filename is left in the state the
\* caller holds, so a later message is not routed to the label pipeline.
C40_Original ==
    node = "idle" => filename = NoFilename

\* a typed message that mentions a medicine, sent after the upload turn, is
\* in extract_medication_labels with the file of that upload
C40_Reprocessed ==
    /\ node = "extract_medication_labels"
    /\ user_input = <<medicine>>
    /\ filename = label_png
    /\ steps >= 2

====
